---- MODULE Spec2Model ----
(***************************************************************************)
(* Weekly class timetabling: the variable space builder, the constraint    *)
(* compiler and the solution validator of the class-arrangement system,    *)
(* with the CP-SAT engine modelled by its contract (any assignment that    *)
(* satisfies every registered hard constraint may be returned).            *)
(*                                                                         *)
(* A schedule variable key is <<class, course, day, period>>.  An engine   *)
(* assignment is the set of keys whose variable has value 1.               *)
(***************************************************************************)
EXTENDS Integers, Sequences, FiniteSets, TLC

VARIABLES
    scenario,       \* which bounded catalog this run was constructed with
    excluded,       \* the excluded map of the run: class -> set of slots
    required,       \* the required map of the run: class -> (slot -> course)
    classes,        \* self.classes: class name -> sequence of Course records
    time_slots,     \* self.time_slots: the (day, period) grid of the run
    set_order,      \* iteration order of Python sets of (class, course) tuples
    schedule_vars,  \* self.schedule_vars: the keys of the created variables
    model,          \* the compiled hard constraints (self.model)
    status,         \* self.status: "NONE" before solve, else the engine status
    value,          \* the engine's assignment: keys whose variable is 1
    solution,       \* get_solution(): (class, day, period) -> (course, teacher)
    verdict,        \* validate_solution()[0]
    errors,         \* validate_solution()[1], as the set of defects found
    error_list,     \* validate_solution()[1], the defects in their order
    success,        \* what solve() returned (FALSE until it has returned)
    solution_is_none, \* the last get_solution() result is None (as self.solution at first)
    saved,          \* main() has written the output files
    pc              \* position of the run: "init", "built", "solved", "saved",
                    \* "validated", "done"

vars == <<scenario, excluded, required, classes, time_slots, set_order, schedule_vars, model,
          status, value, solution, verdict, errors, error_list, success,
          solution_is_none, saved, pc>>

(***************************************************************************)
(* Domain catalog (src/src/data.py, src/src/models.py)                     *)
(***************************************************************************)

\* Course(name, periods_per_week, teacher).  The teacher field is the
\* comma-separated string of the source, kept as the sequence of its parts:
\* the whole sequence is the string's identity, its elements are what
\* Course.get_teachers() returns after splitting on ','.
Course(n, p, t) == [name |-> n, periods_per_week |-> p, teacher |-> t]

get_teachers(course) == {course.teacher[i] : i \in DOMAIN course.teacher}

NinthAdminCourses ==
    << Course("Algebra", 5, <<"Yuhan">>), Course("Social", 4, <<"Darin">>),
       Course("Psychology", 3, <<"Chloe">>), Course("Physics", 3, <<"Guo">>),
       Course("Chemistry", 3, <<"Shao">>), Course("Biology", 3, <<"Zhao">>),
       Course("Geography", 2, <<"Manuel">>), Course("Art", 2, <<"Shiwen">>),
       Course("PE", 2, <<"Wen">>) >>

TenthCourses(physbio_teacher) ==
    << Course("English", 5, <<"Lucy">>), Course("World History", 3, <<"Neil">>),
       Course("Psych&Geo", 3, <<"Chloe", "Manuel">>), Course("Spanish", 2, <<"AK">>),
       Course("Pre-Cal", 5, <<"Dan">>), Course("Micro-Econ", 5, <<"Shi">>),
       Course("Chemistry", 3, <<"Shao">>), Course("Phys&Bio", 3, <<physbio_teacher>>),
       Course("Art", 2, <<"Shiwen">>), Course("PE", 2, <<"Wen">>) >>

EleventhCourses(cal_teacher) ==
    << Course("English", 5, <<"CYF">>), Course("Literature", 3, <<"CYF">>),
       Course("Spanish", 3, <<"AK">>), Course("Cal-ABBC", 5, cal_teacher),
       Course("Group 1 AP", 5, <<"Guo", "Zhao", "Shiwen">>),
       Course("Group 2 AP", 5, <<"Neil", "Guo">>),
       Course("Group 3 AP", 5, <<"Chloe", "Manuel">>),
       Course("Art", 2, <<"Shiwen">>), Course("PE", 2, <<"Wen">>) >>

TwelfthCourses(stats_teacher) ==
    << Course("Spanish", 3, <<"AK">>), Course("BC-Stats", 5, <<stats_teacher>>),
       Course("AP Seminar", 5, <<"Ezio", "Lucy", "Darin">>),
       Course("Group 1 AP", 5, <<"Guo", "Zhao", "Shiwen">>),
       Course("Group 2 AP", 5, <<"Neil", "Guo">>),
       Course("Group 3 AP", 5, <<"Chloe", "Manuel">>),
       Course("PE", 2, <<"Wen">>), Course("Counseling", 1, <<"Wen">>) >>

\* The class names in the insertion order of the dictionary get_class_groups builds.
ClassOrder ==
    << "9-A", "9-B", "9-C", "9-Eng-A", "9-Eng-B", "9-Eng-C", "9-Eng-D", "9-Eng-E",
       "10-A", "10-B", "10-C", "10-EAL-A", "10-EAL-B", "10-EAL-C",
       "11-A", "11-B", "12-A", "12-B" >>

get_class_groups ==
    [c \in {ClassOrder[i] : i \in DOMAIN ClassOrder} |->
        CASE c \in {"9-A", "9-B", "9-C"} -> NinthAdminCourses
          [] c = "9-Eng-A" -> << Course("English", 6, <<"LZY">>) >>
          [] c = "9-Eng-B" -> << Course("English", 6, <<"CYF">>) >>
          [] c = "9-Eng-C" -> << Course("English", 6, <<"Ezio">>) >>
          [] c = "9-Eng-D" -> << Course("English", 6, <<"Ezio">>) >>
          [] c = "9-Eng-E" -> << Course("English", 6, <<"LZY">>) >>
          [] c \in {"10-A", "10-B"} -> TenthCourses("Song")
          [] c = "10-C" -> TenthCourses("Zhao")
          [] c = "10-EAL-A" -> << Course("EAL", 3, <<"Ezio">>) >>
          [] c = "10-EAL-B" -> << Course("EAL", 3, <<"CYF">>) >>
          [] c = "10-EAL-C" -> << Course("EAL", 6, <<"LZY">>) >>
          [] c = "11-A" -> EleventhCourses(<<"Yan", "Song">>)
          [] c = "11-B" -> EleventhCourses(<<"Yan">>)
          [] c = "12-A" -> TwelfthCourses("Yan")
          [] c = "12-B" -> TwelfthCourses("Yuhan") ]

JointSession(cls, course) == [classes |-> cls, course_name |-> course]

get_joint_sessions ==
    << JointSession(<<"9-Eng-A", "9-Eng-B", "9-Eng-C">>, "English"),
       JointSession(<<"9-Eng-D", "9-Eng-E">>, "English"),
       JointSession(<<"10-A", "10-B", "10-C">>, "Psych&Geo"),
       JointSession(<<"10-A", "10-C">>, "Phys&Bio"),
       JointSession(<<"12-A", "12-B">>, "BC-Stats"),
       JointSession(<<"12-A", "12-B">>, "AP Seminar"),
       JointSession(<<"11-A", "11-B", "12-A", "12-B">>, "Group 1 AP"),
       JointSession(<<"11-A", "11-B", "12-A", "12-B">>, "Group 2 AP"),
       JointSession(<<"11-A", "11-B", "12-A", "12-B">>, "Group 3 AP") >>

SessionClasses(session) == {session.classes[i] : i \in DOMAIN session.classes}

joint_sessions == {get_joint_sessions[i] : i \in DOMAIN get_joint_sessions}

\* ScheduleConfig.periods_per_day, and the literal every loop over a day repeats:
\* 6 if day in [0, 3] else (8 if day in [1, 2] else 7).
max_period(day) == IF day \in {0, 3} THEN 6 ELSE IF day \in {1, 2} THEN 8 ELSE 7

Days == 0..4

get_time_slots == {<<d, p>> : d \in Days, p \in 1..8} \ {s \in Days \X (1..8) : s[2] > max_period(s[1])}

get_excluded_time_slots ==
    [c \in {"9-A", "9-B", "9-C", "9-Eng-A", "9-Eng-B", "9-Eng-C", "9-Eng-D", "9-Eng-E",
            "10-A", "10-B", "10-C", "10-EAL-A", "10-EAL-B", "10-EAL-C", "12-A", "12-B"} |->
        IF c \in {"12-A", "12-B"} THEN {<<4, 7>>} ELSE {<<1, 7>>, <<1, 8>>}]

\* excluded.get(class_name, set())
excluded_slots(c) == IF c \in DOMAIN excluded THEN excluded[c] ELSE {}

get_required_time_slots ==
    [c \in {"12-A", "12-B"} |-> [s \in {<<1, 7>>, <<1, 8>>} |->
        IF s = <<1, 7>> THEN "PE" ELSE "Counseling"]]

\* required.get(class_name, {})
required_slots(c) == IF c \in DOMAIN required THEN required[c] ELSE <<>>

(***************************************************************************)
(* Bounded catalogs.  A run is constructed on one of these: the course     *)
(* lists of get_class_groups restricted to the named courses, and the      *)
(* weekly grid restricted to a window of its slots.  Joint sessions,       *)
(* excluded slots and required slots are always those of the catalog.      *)
(***************************************************************************)

\* Periods 1..TenthPeriods of each window day are kept in scenario "tenth".
TenthPeriods == 3

\* Periods 1..SharedPeriods of each window day are kept in scenario "shared".
SharedPeriods == 2

\* Monday, Tuesday, Friday.
WindowDays == {0, 1, 4}

\* The slots the excluded and required maps single out are always kept.
SpecialSlots ==
    UNION {get_excluded_time_slots[c] : c \in DOMAIN get_excluded_time_slots}
    \cup UNION {DOMAIN get_required_time_slots[c] : c \in DOMAIN get_required_time_slots}

Window(periods) ==
    {s \in get_time_slots : s[1] \in WindowDays /\ (s[2] <= periods \/ s \in SpecialSlots)}

\* Tenth grade with its EAL satellites and the Group 2 AP joint session.
TenthSelection ==
    [c \in {"10-A", "10-B", "10-C", "10-EAL-A", "10-EAL-B", "10-EAL-C",
            "11-A", "11-B", "12-A", "12-B"} |->
        CASE c = "10-A" -> {"Psych&Geo", "Chemistry", "Phys&Bio"}
          [] c = "10-B" -> {"Psych&Geo"}
          [] c = "10-C" -> {"Psych&Geo", "Phys&Bio"}
          [] c \in {"10-EAL-A", "10-EAL-B", "10-EAL-C"} -> {"EAL"}
          [] OTHER -> {"Group 2 AP"}]

\* The classes Wen teaches PE and Counseling to, with the E4 courses.
SharedSelection ==
    [c \in {"10-A", "10-C", "10-EAL-C", "12-A", "12-B"} |->
        CASE c = "10-A" -> {"Phys&Bio", "PE"}
          [] c = "10-C" -> {"Phys&Bio"}
          [] c = "10-EAL-C" -> {"EAL"}
          [] OTHER -> {"PE", "Counseling"}]

\* Periods 1..OverfullPeriods of each window day are kept in scenario "overfull".
OverfullPeriods == 1

\* 10-EAL-C alone: six EAL periods a week on a grid that leaves it four slots.
OverfullSelection == [c \in {"10-EAL-C"} |-> {"EAL"}]

\* Periods 1..FullDayPeriods of each window day are kept in scenario "fullday":
\* 10-EAL-C alone on days long enough for the teacher daily maximum.
FullDayPeriods == 6

\* Periods 1..NinthPeriods of every day of the week are kept in scenario "ninth".
NinthPeriods == 2

\* Kept as well in scenario "ninth": with it the two tracking English sessions,
\* six periods each, have the twelve slots they need.
NinthExtraSlots == {<<0, 3>>}

\* The 9th grade tracking English classes and their administrative classes.
NinthSelection ==
    [c \in {"9-A", "9-B", "9-C", "9-Eng-A", "9-Eng-B", "9-Eng-C", "9-Eng-D", "9-Eng-E"} |->
        CASE c \in {"9-A", "9-C"} -> {"Algebra"}
          [] c = "9-B" -> {"Social"}
          [] OTHER -> {"English"}]

\* Periods 1..EleventhPeriods of each window day are kept in scenario "eleventh".
EleventhPeriods == 2

\* The Group 1 AP joint session, with Art and PE of 11-A.
EleventhSelection ==
    [c \in {"11-A", "11-B", "12-A", "12-B"} |->
        IF c = "11-A" THEN {"Group 1 AP", "Art", "PE"} ELSE {"Group 1 AP"}]

\* Periods 1..SeminarPeriods of every day of the week are kept in scenario "seminar".
SeminarPeriods == 2

\* AP Seminar of the 12th grade, with the courses of lower grades that share
\* its teachers Lucy and Darin, and English of 11-A that is held with it.
SeminarSelection ==
    [c \in {"9-A", "10-A", "11-A", "12-A", "12-B"} |->
        CASE c = "9-A" -> {"Social"}
          [] c \in {"10-A", "11-A"} -> {"English"}
          [] OTHER -> {"AP Seminar"}]

\* Periods 1..PhysicsPeriods of each window day are kept in scenario "physics".
PhysicsPeriods == 3

\* The Group 2 AP joint session, with the 9th grade Physics of its teacher Guo.
PhysicsSelection ==
    [c \in {"9-A", "11-A", "11-B", "12-A", "12-B"} |->
        IF c = "9-A" THEN {"Physics"} ELSE {"Group 2 AP"}]

\* Periods 1..ArtPEPeriods of each window day are kept in scenarios "artpe"
\* and "pe".
ArtPEPeriods == 1

\* Periods 1..APPeriods of each window day are kept in scenario "ap": with
\* Tuesday 7-8 and Friday 7 the fifteen slots the three AP groups of 11-A need.
APPeriods == 4

Scenarios == {"tenth", "shared"}

Selection(sc) ==
    CASE sc = "tenth" -> TenthSelection
      [] sc = "shared" -> SharedSelection
      [] sc \in {"overfull", "fullday"} -> OverfullSelection
      [] sc = "ninth" -> NinthSelection
      [] sc = "tracking" -> [c \in {"9-Eng-D", "9-Eng-E"} |-> {"English"}]
      [] sc = "eleventh" -> EleventhSelection
      [] sc = "art" -> [c \in {"9-A", "10-A"} |-> {"Art"}]
      [] sc = "artpe" -> [c \in {"11-A", "11-B", "12-A", "12-B"} |->
                            IF c \in {"11-A", "11-B"} THEN {"Art"} ELSE {"PE"}]
      [] sc = "pe" -> [c \in {"11-A", "12-A", "12-B"} |-> {"PE"}]
      [] sc = "ap" -> [c \in {"11-A"} |-> {"Group 1 AP", "Group 2 AP", "Group 3 AP"}]
      [] sc = "seminar" -> SeminarSelection
      [] sc = "physics" -> PhysicsSelection

ScenarioPeriods(sc) ==
    CASE sc = "tenth" -> TenthPeriods
      [] sc = "shared" -> SharedPeriods
      [] sc = "overfull" -> OverfullPeriods
      [] sc = "fullday" -> FullDayPeriods
      [] sc \in {"ninth", "tracking"} -> NinthPeriods
      [] sc \in {"eleventh", "art"} -> EleventhPeriods
      [] sc = "seminar" -> SeminarPeriods
      [] sc = "physics" -> PhysicsPeriods
      [] sc \in {"artpe", "pe"} -> ArtPEPeriods
      [] sc = "ap" -> APPeriods

\* The grid of a scenario: its window, over the whole week for the scenarios
\* whose courses meet once a day on five days.
ScenarioWindow(sc) ==
    IF sc \in {"ninth", "tracking", "seminar"}
    THEN {s \in get_time_slots :
             \/ s[2] <= ScenarioPeriods(sc) \/ s \in SpecialSlots
             \/ (sc \in {"ninth", "tracking"} /\ s \in NinthExtraSlots)}
    ELSE Window(ScenarioPeriods(sc))

\* get_class_groups() for a scenario: the selected courses, in catalog order.
ScenarioClasses(sc) ==
    [c \in DOMAIN Selection(sc) |->
        SelectSeq(get_class_groups[c], LAMBDA k : k.name \in Selection(sc)[c])]

Reverse(seq) == [i \in 1..Len(seq) |-> seq[Len(seq) + 1 - i]]

\* The orders in which a Python set of (class, course) tuples may be iterated
\* (it depends on the string hash seed of the process): by class, forwards or
\* backwards.
IterationOrders == {ClassOrder, Reverse(ClassOrder)}

(***************************************************************************)
(* Lookups of the catalog held by a run                                    *)
(***************************************************************************)

CourseNames(cls, c) == {cls[c][i].name : i \in DOMAIN cls[c]}

CourseOf(cls, c, k) == cls[c][CHOOSE i \in DOMAIN cls[c] : cls[c][i].name = k]

\* All (class, course name) pairs of the run.
ClassCourses(cls) == UNION {{<<c, k>> : k \in CourseNames(cls, c)} : c \in DOMAIN cls}

Key(c, k, s) == <<c, k, s[1], s[2]>>

SlotOf(key) == <<key[3], key[4]>>

(***************************************************************************)
(* Variable space builder (ClassScheduleSolver._create_variables)          *)
(***************************************************************************)

\* _create_variables without the test for slots reserved for another course.
CreateVariablesNoReserve(cls, ts) ==
    {key \in UNION {{Key(q[1], q[2], s) : s \in ts} : q \in ClassCourses(cls)} :
        SlotOf(key) \notin excluded_slots(key[1])}

_create_variables(cls, ts) ==
    {key \in UNION {{Key(q[1], q[2], s) : s \in ts} : q \in ClassCourses(cls)} :
        /\ SlotOf(key) \notin excluded_slots(key[1])
        /\ ~ (/\ SlotOf(key) \in DOMAIN required_slots(key[1])
              /\ required_slots(key[1])[SlotOf(key)] # key[2])}

(***************************************************************************)
(* Lookup structures of SchedulingConstraints                              *)
(***************************************************************************)

\* teacher -> list of sets of classes taught at once (conflict purposes only).
_get_teacher_joint_sessions == [t \in {"Wen"} |-> << {"12-A", "12-B"}, {"12-A", "12-B"} >>]

Teachers(cls) == UNION {get_teachers(CourseOf(cls, q[1], q[2])) : q \in ClassCourses(cls)}

\* self.teacher_classes[teacher]: the (class, course) pairs the teacher is named on.
teacher_classes(cls, teacher) ==
    {q \in ClassCourses(cls) : teacher \in get_teachers(CourseOf(cls, q[1], q[2]))}

is_in_joint_session(c, k) ==
    \E session \in joint_sessions : c \in SessionClasses(session) /\ session.course_name = k

\* The first session of the class with that course name.
get_joint_session(c, k) ==
    get_joint_sessions[CHOOSE i \in DOMAIN get_joint_sessions :
        /\ c \in SessionClasses(get_joint_sessions[i]) /\ get_joint_sessions[i].course_name = k
        /\ \A j \in 1..(i - 1) :
              ~ (c \in SessionClasses(get_joint_sessions[j]) /\ get_joint_sessions[j].course_name = k)]

(***************************************************************************)
(* Compiled constraints.  A constraint over the schedule variables is a    *)
(* record; x is an assignment (the set of keys whose variable is 1).       *)
(*   "eq"      sum(a) == k                                                 *)
(*   "le"      sum(a) <= k                                                 *)
(*   "imp"     the variable of a implies one of the variables of b         *)
(*   "same"    the variable of a equals the variable of b                  *)
(*   "overlap" g is a set of <<eal key, Phys&Bio keys>>; the number of     *)
(*             terms min(eal, max(Phys&Bio keys)) that are 1 equals k      *)
(*   "days_le", "days_eq"  g is a set of per-day key sets; the number of   *)
(*             days whose sum is 2 is <= k, == k                           *)
(* The auxiliary Booleans of the source (has_physbio, overlap, has_2) are  *)
(* functions of the schedule variables and are eliminated.                 *)
(***************************************************************************)

Con(fam, kind, a, b, k, g) == [fam |-> fam, kind |-> kind, a |-> a, b |-> b, k |-> k, g |-> g]

Eq(fam, a, k) == Con(fam, "eq", a, {}, k, {})

Le(fam, a, k) == Con(fam, "le", a, {}, k, {})

\* The pairwise and per-teacher conflicts with Physics left open.
AtMostOneButPhysics(fam, a) ==
    Le(fam, a, IF \E key \in a : key[2] = "Physics" THEN 2 ELSE 1)

\* model.Add(... <= 1): at most one of the variables is 1.
AtMostOne(fam, a) == Le(fam, a, 1)

Imp(fam, a, b) == Con(fam, "imp", {a}, b, 0, {})

Same(fam, a, b) == Con(fam, "same", {a}, {b}, 0, {})

Sum(a, x) == Cardinality(a \cap x)

Holds(c, x) ==
    CASE c.kind = "eq" -> Sum(c.a, x) = c.k
      [] c.kind = "le" -> Sum(c.a, x) <= c.k
      [] c.kind = "imp" -> (c.a \subseteq x) => (c.b \cap x # {})
      [] c.kind = "same" -> (c.a \subseteq x) <=> (c.b \subseteq x)
      [] c.kind = "overlap" -> Cardinality({t \in c.g : t[1] \in x /\ t[2] \cap x # {}}) = c.k
      [] c.kind = "days_le" -> Cardinality({d \in c.g : Sum(d, x) = 2}) <= c.k
      [] c.kind = "days_eq" -> Cardinality({d \in c.g : Sum(d, x) = 2}) = c.k

\* The schedule variables a constraint mentions.
Scope(c) ==
    CASE c.kind = "overlap" -> UNION {{t[1]} \cup t[2] : t \in c.g}
      [] c.kind \in {"days_le", "days_eq"} -> c.a
      [] OTHER -> c.a \cup c.b

\* The variables of (class, course) on the given slots, excluded slots skipped.
SlotVars(sv, c, k, slots) == {Key(c, k, s) : s \in slots \ excluded_slots(c)} \cap sv

\* range(1, max_period + 1) of one day
DaySlots(day) == {<<day, p>> : p \in 1..max_period(day)}

PeriodsOf(cls, c, k) == CourseOf(cls, c, k).periods_per_week

(***************************************************************************)
(* Constraint families (SchedulingConstraints.add_*_constraints)           *)
(***************************************************************************)

\* A1 registered only for the courses taught more than once a week.
LoadConstraintsMultiPeriod(cls, sv, ts) ==
    {Eq("A1", SlotVars(sv, q[1], q[2], ts), PeriodsOf(cls, q[1], q[2])) :
        q \in {r \in ClassCourses(cls) :
                  PeriodsOf(cls, r[1], r[2]) > 1 /\ SlotVars(sv, r[1], r[2], ts) # {}}}

\* A1: each (class, course) is taught exactly periods_per_week times.
LoadConstraints(cls, sv, ts) ==
    {Eq("A1", SlotVars(sv, q[1], q[2], ts), PeriodsOf(cls, q[1], q[2])) :
        q \in {r \in ClassCourses(cls) : SlotVars(sv, r[1], r[2], ts) # {}}}

\* The variables of all courses of a class at one slot.
CoursesAtSlot(cls, sv, c, s) == {Key(c, k, s) : k \in CourseNames(cls, c)} \cap sv

\* A2 registered only where more than two course variables meet.
SlotConstraintsOverTwo(cls, sv, ts) ==
    {Le("A2", CoursesAtSlot(cls, sv, q[1], q[2]), 1) :
        q \in {r \in (DOMAIN cls) \X ts :
                  /\ r[2] \notin excluded_slots(r[1])
                  /\ Cardinality(CoursesAtSlot(cls, sv, r[1], r[2])) > 2}}

\* A2: each class has at most one course per slot.
SlotConstraints(cls, sv, ts) ==
    {Le("A2", CoursesAtSlot(cls, sv, q[1], q[2]), 1) :
        q \in {r \in (DOMAIN cls) \X ts :
                  /\ r[2] \notin excluded_slots(r[1])
                  /\ Cardinality(CoursesAtSlot(cls, sv, r[1], r[2])) > 1}}

add_basic_constraints(cls, sv, ts) == LoadConstraints(cls, sv, ts) \cup SlotConstraints(cls, sv, ts)

\* B whose equalities stop at the third member of a session.
JointConstraintsFirstThree(sv, ts) ==
    UNION {{Same("B", Key(q[1].classes[1], q[1].course_name, q[2]),
                      Key(q[1].classes[i], q[1].course_name, q[2])) :
               i \in {j \in 2..Len(q[1].classes) : j <= 3}} :
           q \in {r \in joint_sessions \X ts :
                     \A c \in SessionClasses(r[1]) :
                         r[2] \notin excluded_slots(c) /\ Key(c, r[1].course_name, r[2]) \in sv}}

\* valid_slot: no member class is excluded at the slot and every member has a variable.
ValidSlot(sv, session, s) ==
    \A c \in SessionClasses(session) :
        s \notin excluded_slots(c) /\ Key(c, session.course_name, s) \in sv

\* B: at a valid slot every member's variable equals the first member's.
add_joint_session_constraints(sv, ts) ==
    UNION {{Same("B", Key(q[1].classes[1], q[1].course_name, q[2]),
                      Key(q[1].classes[i], q[1].course_name, q[2])) :
               i \in 2..Len(q[1].classes)} :
           q \in {r \in joint_sessions \X ts : ValidSlot(sv, r[1], r[2])}}

\* The (class, course) pairs of a teacher that have a variable at the slot.
Present(cls, sv, teacher, s) ==
    {q \in teacher_classes(cls, teacher) :
        s \notin excluded_slots(q[1]) /\ Key(q[1], q[2], s) \in sv}

\* all_have_course for some teacher-level session holding the class.
InTeacherSession(cls, teacher, q) ==
    /\ teacher \in DOMAIN _get_teacher_joint_sessions
    /\ \E i \in DOMAIN _get_teacher_joint_sessions[teacher] :
          /\ q[1] \in _get_teacher_joint_sessions[teacher][i]
          /\ \A cl \in _get_teacher_joint_sessions[teacher][i] :
                <<cl, q[2]>> \in teacher_classes(cls, teacher)

\* session_key of a pair, or <<>> for a regular course.
SessionKey(cls, teacher, q) ==
    IF is_in_joint_session(q[1], q[2])
    THEN <<q[2], SessionClasses(get_joint_session(q[1], q[2]))>>
    ELSE IF InTeacherSession(cls, teacher, q)
         THEN <<q[2], _get_teacher_joint_sessions[teacher][
                        CHOOSE i \in DOMAIN _get_teacher_joint_sessions[teacher] :
                            /\ q[1] \in _get_teacher_joint_sessions[teacher][i]
                            /\ \A cl \in _get_teacher_joint_sessions[teacher][i] :
                                  <<cl, q[2]>> \in teacher_classes(cls, teacher)]>>
         ELSE <<>>

Position(order, c) == CHOOSE i \in DOMAIN order : order[i] = c

\* all_courses: the regular pairs, and of each session the pair the iteration
\* over the teacher's set meets first.
Counted(cls, sv, order, teacher, s) ==
    {q \in Present(cls, sv, teacher, s) :
        \/ SessionKey(cls, teacher, q) = <<>>
        \/ \A r \in Present(cls, sv, teacher, s) :
              SessionKey(cls, teacher, r) = SessionKey(cls, teacher, q)
                  => Position(order, q[1]) <= Position(order, r[1])}

\* C: per teacher and slot, the counted variables sum to at most 1.
add_teacher_conflict_constraints(cls, sv, ts, order) ==
    {AtMostOne("C", {Key(q[1], q[2], r[2]) : q \in Counted(cls, sv, order, r[1], r[2])}) :
        r \in {u \in Teachers(cls) \X ts :
                  Cardinality(Counted(cls, sv, order, u[1], u[2])) > 1}}

\* E1 without the test that the key exists.
RequiredConstraintsUnguarded(sv) ==
    {Eq("E1", {Key(q[1], required[q[1]][q[2]], q[2])}, 1) :
        q \in {r \in (DOMAIN required) \X get_time_slots : r[2] \in DOMAIN required[r[1]]}}

\* E1 registered for the first class of the required map only.
RequiredConstraintsFirstClass(sv) ==
    {Eq("E1", {Key(q[1], get_required_time_slots[q[1]][q[2]], q[2])}, 1) :
        q \in {r \in {"12-A"} \X get_time_slots :
                  /\ r[2] \in DOMAIN get_required_time_slots[r[1]]
                  /\ Key(r[1], get_required_time_slots[r[1]][r[2]], r[2]) \in sv}}

\* E1: the variable of a required slot is 1.
RequiredConstraints(sv) ==
    {Eq("E1", {Key(q[1], required[q[1]][q[2]], q[2])}, 1) :
        q \in {r \in (DOMAIN required) \X get_time_slots :
                  /\ r[2] \in DOMAIN required[r[1]]
                  /\ Key(r[1], required[r[1]][r[2]], r[2]) \in sv}}

EALPairs == {<<"10-A", "10-EAL-A">>, <<"10-B", "10-EAL-B">>, <<"10-C", "10-EAL-C">>}

\* E3: Psych&Geo of the class implies EAL of its EAL class, one direction only.
E3Constraints(sv, ts) ==
    {Imp("E3", Key(q[1][1], "Psych&Geo", q[2]), {Key(q[1][2], "EAL", q[2])}) :
        q \in {r \in EALPairs \X ts :
                  /\ Key(r[1][1], "Psych&Geo", r[2]) \in sv
                  /\ Key(r[1][2], "EAL", r[2]) \in sv}}

PhysBioKeys(sv, s) == {Key("10-A", "Phys&Bio", s), Key("10-C", "Phys&Bio", s)} \cap sv

\* e4_terms: one overlap indicator per slot where 10-EAL-C has an EAL variable
\* and 10-A or 10-C has a Phys&Bio variable.
e4_terms(sv, ts) ==
    {<<Key("10-EAL-C", "EAL", s), PhysBioKeys(sv, s)>> :
        s \in {u \in ts : Key("10-EAL-C", "EAL", u) \in sv /\ PhysBioKeys(sv, u) # {}}}

\* sum(e4_terms) == 3
E4Overlaps == 3

\* E4 asking for a single overlap.
E4ConstraintsOne(sv, ts) ==
    IF e4_terms(sv, ts) # {}
    THEN {Con("E4", "overlap", {}, {}, E4Overlaps - 2, e4_terms(sv, ts))}
    ELSE {}

\* E4 asking for two overlaps.
E4ConstraintsTwo(sv, ts) ==
    IF e4_terms(sv, ts) # {}
    THEN {Con("E4", "overlap", {}, {}, E4Overlaps - 1, e4_terms(sv, ts))}
    ELSE {}

\* E4: exactly E4Overlaps overlap indicators are 1.
E4Constraints(sv, ts) ==
    IF e4_terms(sv, ts) # {}
    THEN {Con("E4", "overlap", {}, {}, E4Overlaps, e4_terms(sv, ts))}
    ELSE {}

add_special_time_constraints(sv, ts) ==
    RequiredConstraints(sv) \cup E3Constraints(sv, ts) \cup E4Constraints(sv, ts)

EALClasses == {"10-EAL-A", "10-EAL-B", "10-EAL-C"}

\* F with a cap of 2 for every course.
DailyCapTwo(cls, c, k) == 2

\* Courses with 5+ periods/week, and Art: at most 2 per day; others at most 1.
DailyCap(cls, c, k) == IF PeriodsOf(cls, c, k) >= 5 \/ k = "Art" THEN 2 ELSE 1

\* F: daily cap per (class, course, day); EAL classes are skipped.
add_daily_course_constraints(cls, sv) ==
    {Le("F", SlotVars(sv, q[1][1], q[1][2], DaySlots(q[2])), DailyCap(cls, q[1][1], q[1][2])) :
        q \in {r \in ClassCourses(cls) \X Days :
                  /\ r[1][1] \notin EALClasses
                  /\ SlotVars(sv, r[1][1], r[1][2], DaySlots(r[2])) # {}}}

\* H pairing 11-A English at periods 1 and 2 with AP Seminar at the other one.
SeminarSyncSwapped(sv, ts) ==
    {Same("H", Key("11-A", "English", s),
               Key("12-A", "AP Seminar", IF s[2] <= 2 THEN <<s[1], 3 - s[2]>> ELSE s)) :
        s \in {u \in ts : Key("11-A", "English", u) \in sv /\ Key("12-A", "AP Seminar", u) \in sv}}

\* H: 11-A English equals 12-A AP Seminar wherever both variables exist.
add_ap_seminar_english_sync_constraint(sv, ts) ==
    {Same("H", Key("11-A", "English", s), Key("12-A", "AP Seminar", s)) :
        s \in {u \in ts : Key("11-A", "English", u) \in sv /\ Key("12-A", "AP Seminar", u) \in sv}}

\* v1 + v2 <= 1 for every pair of existing variables (c1, k1, s), (c2, k2, s)
\* with (c1, k1) in left and (c2, k2) in right.
Exclusions(fam, sv, slots, left, right) ==
    {AtMostOne(fam, {Key(q[1][1], q[1][2], q[3]), Key(q[2][1], q[2][2], q[3])}) :
        q \in {r \in left \X right \X slots :
                  Key(r[1][1], r[1][2], r[3]) \in sv /\ Key(r[2][1], r[2][2], r[3]) \in sv}}

\* I: Lucy, 10th grade English against 12-A AP Seminar.
add_lucy_ap_seminar_english_conflict(sv, ts) ==
    Exclusions("I", sv, ts, {"10-A", "10-B", "10-C"} \X {"English"}, {<<"12-A", "AP Seminar">>})

\* J: Guo, 9th grade Physics against Group 1 AP and Group 2 AP.
add_guo_conflict_constraint(sv, ts) ==
    Exclusions("J", sv, ts, {"9-A", "9-B", "9-C"} \X {"Physics"},
               {"11-A", "11-B", "12-A", "12-B"} \X {"Group 1 AP", "Group 2 AP"})

\* K: Darin, 12th grade AP Seminar against 9th grade Social.
add_darin_ap_seminar_social_constraint(sv, ts) ==
    Exclusions("K", sv, ts, {"12-A", "12-B"} \X {"AP Seminar"}, {"9-A", "9-B", "9-C"} \X {"Social"})

\* L: 10-A English implies 9-Eng-A English.
add_english_9a_10a_sync_constraint(sv, ts) ==
    {Imp("L", Key("10-A", "English", s), {Key("9-Eng-A", "English", s)}) :
        s \in {u \in ts : Key("10-A", "English", u) \in sv /\ Key("9-Eng-A", "English", u) \in sv}}

\* M: 9-Eng-A / 10-A English against 11-A / 11-B Literature.
add_english_literature_conflict_constraint(sv, ts) ==
    Exclusions("M", sv, ts, {"9-Eng-A", "10-A"} \X {"English"}, {"11-A", "11-B"} \X {"Literature"})

\* N: 9-Eng-A / 10-A English against 12-A / 12-B AP Seminar.
add_english_ap_seminar_conflict_constraint(sv, ts) ==
    Exclusions("N", sv, ts, {"9-Eng-A", "10-A"} \X {"English"}, {"12-A", "12-B"} \X {"AP Seminar"})

\* The 10-A variables rule O can point at: Chemistry and Phys&Bio at the slot.
TenAKeys(sv, s) == {Key("10-A", "Chemistry", s), Key("10-A", "Phys&Bio", s)} \cap sv

\* O: Group 2 AP of any 11th/12th class implies 10-A Chemistry or Phys&Bio,
\* emitted only where 10-A has at least one of the two variables.
add_group2_ap_10a_requirement_constraint(sv, ts) ==
    {Imp("O", Key(q[1], "Group 2 AP", q[2]), TenAKeys(sv, q[2])) :
        q \in {r \in {"11-A", "11-B", "12-A", "12-B"} \X ts :
                  Key(r[1], "Group 2 AP", r[2]) \in sv /\ TenAKeys(sv, r[2]) # {}}}

\* P: Shiwen, Art against Group 1 AP.
add_art_group1_ap_conflict_constraint(sv, ts) ==
    Exclusions("P", sv, ts,
               {"9-A", "9-B", "9-C", "10-A", "10-B", "10-C", "11-A", "11-B"} \X {"Art"},
               {"11-A", "11-B", "12-A", "12-B"} \X {"Group 1 AP"})

\* day_periods of a (class, course): day -> its variables on that day.
day_periods(sv, c, k) == [day \in Days |-> SlotVars(sv, c, k, DaySlots(day))]

\* sum(periods) <= 2 for every day that has variables.
TwoPerDay(fam, sv, c, k) ==
    {Le(fam, day_periods(sv, c, k)[day], 2) :
        day \in {d \in Days : day_periods(sv, c, k)[d] # {}}}

\* has_2_days: an indicator "sum == 2" per day with two or more variables (a
\* day with a single variable has an indicator fixed to 0).  kind is "days_le"
\* (sum(has_2_days) <= 1) or "days_eq" (sum(has_2_days) == 1).
DoubleDays(fam, kind, sv, c, k) ==
    IF \E d \in Days : day_periods(sv, c, k)[d] # {}
    THEN {Con(fam, kind,
              UNION {day_periods(sv, c, k)[d] : d \in Days}, {}, 1,
              {day_periods(sv, c, k)[d] :
                  d \in {e \in Days : Cardinality(day_periods(sv, c, k)[e]) >= 2}})}
    ELSE {}

\* sum(day_periods) <= 1 for every listed course the class has, per day.
OnePerDay(fam, cls, sv, c, courses) ==
    {Le(fam, day_periods(sv, c, q[1])[q[2]], 1) :
        q \in {r \in (courses \cap CourseNames(cls, c)) \X Days :
                  day_periods(sv, c, r[1])[r[2]] # {}}}

\* Art with exactly one day of 2 periods.
ArtLimitsExactlyOne(fam, cls, sv, c) ==
    IF "Art" \in CourseNames(cls, c)
    THEN TwoPerDay(fam, sv, c, "Art") \cup DoubleDays(fam, "days_eq", sv, c, "Art")
    ELSE {}

\* Art of a class that has it: at most 2 a day, at most one day with 2.
ArtLimits(fam, cls, sv, c) ==
    IF "Art" \in CourseNames(cls, c)
    THEN TwoPerDay(fam, sv, c, "Art") \cup DoubleDays(fam, "days_le", sv, c, "Art")
    ELSE {}

\* Tracking English with exactly two days of 2 periods.
TrackingLimitsTwoDays(fam, cls, sv, c) ==
    IF "English" \in CourseNames(cls, c)
    THEN TwoPerDay(fam, sv, c, "English")
         \cup {[d EXCEPT !.k = 2] : d \in DoubleDays(fam, "days_eq", sv, c, "English")}
    ELSE {}

\* Tracking English: at most 2 a day, exactly one day with 2.
TrackingLimits(fam, cls, sv, c) ==
    IF "English" \in CourseNames(cls, c)
    THEN TwoPerDay(fam, sv, c, "English") \cup DoubleDays(fam, "days_eq", sv, c, "English")
    ELSE {}

\* R: 9th grade daily limits.
add_9th_grade_daily_limits_constraint(cls, sv) ==
    UNION {ArtLimits("R", cls, sv, c)
           \cup OnePerDay("R", cls, sv, c,
                          {"Algebra", "Social", "Psychology", "Physics", "Chemistry",
                           "Biology", "Geography", "PE"}) :
           c \in {"9-A", "9-B", "9-C"} \cap DOMAIN cls}
    \cup UNION {TrackingLimits("R", cls, sv, c) :
           c \in {"9-Eng-A", "9-Eng-B", "9-Eng-C", "9-Eng-D", "9-Eng-E"} \cap DOMAIN cls}

\* S: 10th grade daily limits.
add_10th_grade_daily_limits_constraint(cls, sv) ==
    UNION {ArtLimits("S", cls, sv, c)
           \cup OnePerDay("S", cls, sv, c,
                          {"English", "World History", "Psych&Geo", "Spanish", "Pre-Cal",
                           "Micro-Econ", "Chemistry", "Phys&Bio", "PE"}) :
           c \in {"10-A", "10-B", "10-C"} \cap DOMAIN cls}

\* W that lets two periods of a day be one period apart.
SameDayGapOverTwo(cls, sv) ==
    {Le("W", {q[1], q[2]}, 1) :
        q \in {r \in sv \X sv :
                  /\ r[1][1] = r[2][1] /\ r[1][2] = r[2][2] /\ r[1][3] = r[2][3]
                  /\ r[1][4] < r[2][4] /\ r[2][4] > r[1][4] + 2}}

\* W registered against the first variable of the day only.
SameDayFromFirstOnly(cls, sv) ==
    {Le("W", {q[1], q[2]}, 1) :
        q \in {r \in sv \X sv :
                  /\ r[1][1] = r[2][1] /\ r[1][2] = r[2][2] /\ r[1][3] = r[2][3]
                  /\ r[1][4] < r[2][4] /\ r[2][4] # r[1][4] + 1
                  /\ ~ \E key \in sv : /\ key[1] = r[1][1] /\ key[2] = r[1][2]
                                       /\ key[3] = r[1][3] /\ key[4] < r[1][4]}}

\* W: two variables of one (class, course) on one day whose periods are not
\* consecutive cannot both be 1.
add_same_day_consecutive_constraint(cls, sv) ==
    {Le("W", {q[1], q[2]}, 1) :
        q \in {r \in sv \X sv :
                  /\ r[1][1] = r[2][1] /\ r[1][2] = r[2][2] /\ r[1][3] = r[2][3]
                  /\ r[1][4] < r[2][4] /\ r[2][4] # r[1][4] + 1}}

\* All variables of a class at a slot, as (class, course) pairs.
AdminPairs(cls, admin) == UNION {{c} \X CourseNames(cls, c) : c \in admin \cap DOMAIN cls}

\* T: 9-Eng-A English against every course of 9-A and 9-B.
add_tracking_english_abc_admin_constraint(cls, sv, ts) ==
    Exclusions("T", sv, ts \ excluded_slots("9-Eng-A"),
               {<<"9-Eng-A", "English">>}, AdminPairs(cls, {"9-A", "9-B"}))

\* U compiled for the slots of Monday only.
TrackingDeMondayOnly(cls, sv, ts) ==
    Exclusions("U", sv, {s \in ts : s[1] = 0} \ excluded_slots("9-Eng-D"),
               {<<"9-Eng-D", "English">>}, AdminPairs(cls, {"9-C"}))

\* U: 9-Eng-D English against every course of 9-C.
add_tracking_english_de_admin_constraint(cls, sv, ts) ==
    Exclusions("U", sv, ts \ excluded_slots("9-Eng-D"),
               {<<"9-Eng-D", "English">>}, AdminPairs(cls, {"9-C"}))

\* V: 9-Eng-A English against 9-Eng-D English.
add_tracking_english_abc_de_conflict_constraint(sv, ts) ==
    Exclusions("V", sv, (ts \ excluded_slots("9-Eng-A")) \ excluded_slots("9-Eng-D"),
               {<<"9-Eng-A", "English">>}, {<<"9-Eng-D", "English">>})

\* The hard constraints add_all_constraints registers, in its order of calls.
add_all_constraints(cls, sv, ts, order) ==
    add_basic_constraints(cls, sv, ts)
    \cup add_joint_session_constraints(sv, ts)
    \cup add_teacher_conflict_constraints(cls, sv, ts, order)
    \cup add_special_time_constraints(sv, ts)
    \cup add_daily_course_constraints(cls, sv)
    \cup add_ap_seminar_english_sync_constraint(sv, ts)
    \cup add_lucy_ap_seminar_english_conflict(sv, ts)
    \cup add_guo_conflict_constraint(sv, ts)
    \cup add_darin_ap_seminar_social_constraint(sv, ts)
    \cup add_english_9a_10a_sync_constraint(sv, ts)
    \cup add_english_literature_conflict_constraint(sv, ts)
    \cup add_english_ap_seminar_conflict_constraint(sv, ts)
    \cup add_group2_ap_10a_requirement_constraint(sv, ts)
    \cup add_art_group1_ap_conflict_constraint(sv, ts)
    \cup add_9th_grade_daily_limits_constraint(cls, sv)
    \cup add_10th_grade_daily_limits_constraint(cls, sv)
    \cup add_same_day_consecutive_constraint(cls, sv)
    \cup add_tracking_english_abc_admin_constraint(cls, sv, ts)
    \cup add_tracking_english_de_admin_constraint(cls, sv, ts)
    \cup add_tracking_english_abc_de_conflict_constraint(sv, ts)

(***************************************************************************)
(* Soft-term families.  Each term is an auxiliary variable of the model,   *)
(* defined over groups g of schedule variables:                            *)
(*   "min"     a Boolean equal to the minimum of the variables of the group *)
(*   "atleast" a Boolean that is 1 iff the variables of the group sum to   *)
(*             at least k                                                  *)
(*   "excess"  an integer of 0..hi that is at least the number of groups   *)
(*             with a variable at 1, minus k                               *)
(***************************************************************************)

Soft(fam, kind, g, k, hi) == [fam |-> fam, kind |-> kind, g |-> g, k |-> k, hi |-> hi]

\* consecutive = var1 AND var2 for the adjacent periods of every day.
_add_consecutive_indicator(sv, c, k) ==
    {Soft("G", "min", {{Key(c, k, s), Key(c, k, <<s[1], s[2] + 1>>)}}, 0, 1) :
        s \in {u \in get_time_slots :
                  /\ u[2] < max_period(u[1])
                  /\ u \notin excluded_slots(c)
                  /\ <<u[1], u[2] + 1>> \notin excluded_slots(c)
                  /\ Key(c, k, u) \in sv
                  /\ Key(c, k, <<u[1], u[2] + 1>>) \in sv}}

\* Q: has_at_least_2_ap per 11th / 12th grade class and day; ap_periods are
\* the AP variables of the class on the day.
_add_daily_ap_preference_constraint(cls, sv) ==
    LET ap_periods(c, day) ==
            UNION {SlotVars(sv, c, k, DaySlots(day)) :
                      k \in {"Group 1 AP", "Group 2 AP", "Group 3 AP"}}
    IN {Soft("Q", "atleast", {ap_periods(r[1], r[2])}, 2, 1) :
           r \in {u \in ({"11-A", "11-B", "12-A", "12-B"} \cap DOMAIN cls) \X Days :
                     Cardinality(ap_periods(u[1], u[2])) >= 2}}

\* Y with excess in 0..1.
DailyAPTotalExcessOne(cls, sv) ==
    LET ap_periods(day) ==
            UNION {SlotVars(sv, "11-A", k, DaySlots(day)) :
                      k \in {"Group 1 AP", "Group 2 AP", "Group 3 AP"}}
    IN IF "11-A" \notin DOMAIN cls THEN {}
       ELSE {Soft("Y", "excess", {{v} : v \in ap_periods(day)}, 4, 1) :
               day \in {d \in Days : ap_periods(d) # {}}}

\* Y: excess >= sum(ap_periods) - 4 with excess in 0..2, for 11-A and each day.
_add_daily_ap_total_soft_constraint(cls, sv) ==
    LET ap_periods(day) ==
            UNION {SlotVars(sv, "11-A", k, DaySlots(day)) :
                      k \in {"Group 1 AP", "Group 2 AP", "Group 3 AP"}}
    IN IF "11-A" \notin DOMAIN cls THEN {}
       ELSE {Soft("Y", "excess", {{v} : v \in ap_periods(day)}, 4, 2) :
               day \in {d \in Days : ap_periods(d) # {}}}

\* G: the consecutive indicators of the listed courses, then Q and Y.
add_soft_constraints(cls, sv) ==
    UNION {_add_consecutive_indicator(sv, q[1], q[2]) :
              q \in {r \in ClassCourses(cls) :
                        r[2] \in {"Cal-ABBC", "Group 1 AP", "Group 2 AP", "Group 3 AP",
                                  "BC-Stats", "AP Seminar", "Art", "English",
                                  "Algebra", "Pre-Cal"}}}
    \cup _add_daily_ap_preference_constraint(cls, sv)
    \cup _add_daily_ap_total_soft_constraint(cls, sv)

\* X: excess >= sum(teacher_p1_days) - 3 with excess in 0..5, for a teacher
\* with period-1 variables (p1_vars) on more than 3 days.
add_teacher_period1_soft_constraint(cls, sv) ==
    LET p1_vars(teacher, day) ==
            {Key(q[1], q[2], <<day, 1>>) : q \in teacher_classes(cls, teacher)} \cap sv
    IN {Soft("X", "excess",
             {p1_vars(t, day) : day \in {d \in Days : p1_vars(t, d) # {}}}, 3, 5) :
           t \in {u \in Teachers(cls) :
                     Cardinality({d \in Days : p1_vars(u, d) # {}}) > 3}}

\* Z: excess >= sum(period_indicators) - 5 with excess in 0..(n - 5), for a
\* teacher and day with more than 5 indicators: the slots of the day where
\* the teacher has a variable (period_vars), excluded classes skipped.
add_teacher_daily_max_soft_constraint(cls, sv) ==
    LET period_vars(teacher, s) ==
            {Key(q[1], q[2], s) : q \in {r \in teacher_classes(cls, teacher) :
                                            s \notin excluded_slots(r[1])}} \cap sv
        period_indicators(teacher, day) ==
            {s \in DaySlots(day) : period_vars(teacher, s) # {}}
    IN {Soft("Z", "excess",
             {period_vars(r[1], s) : s \in period_indicators(r[1], r[2])},
             5, Cardinality(period_indicators(r[1], r[2])) - 5) :
           r \in {u \in Teachers(cls) \X Days :
                     Cardinality(period_indicators(u[1], u[2])) > 5}}

\* The soft terms add_all_constraints registers after the hard families.
add_soft_terms(cls, sv) ==
    add_soft_constraints(cls, sv)
    \cup add_teacher_period1_soft_constraint(cls, sv)
    \cup add_teacher_daily_max_soft_constraint(cls, sv)

\* The keys the compilation subscripts that the variable space does not hold:
\* each raises KeyError in build_model.
KeyErrors(cls, sv, ts, order) ==
    (UNION {Scope(c) : c \in add_all_constraints(cls, sv, ts, order)}
     \cup UNION {UNION t.g : t \in add_soft_terms(cls, sv)}) \ sv

(***************************************************************************)
(* The CP-SAT engine, by its contract: Solve returns OPTIMAL or FEASIBLE   *)
(* with an assignment satisfying every registered constraint, INFEASIBLE   *)
(* only if there is none, or UNKNOWN when the time limit ends the search.  *)
(***************************************************************************)

\* The order in which the search takes the classes: the dictionary order,
\* with the 9th grade administrative classes moved behind the others.  The
\* order changes the work of the search, never the set of assignments found.
SearchOrder ==
    << "9-Eng-A", "9-Eng-B", "9-Eng-C", "9-Eng-D", "9-Eng-E",
       "10-A", "10-B", "10-C", "10-EAL-A", "10-EAL-B", "10-EAL-C",
       "11-A", "11-B", "12-A", "12-B", "9-A", "9-B", "9-C" >>

\* The (class, course) pairs the search takes before all others.
SearchFirst ==
    << <<"11-A", "Group 1 AP">>, <<"11-B", "Group 1 AP">>, <<"12-A", "Group 1 AP">>,
       <<"12-B", "Group 1 AP">>, <<"12-A", "AP Seminar">>, <<"12-B", "AP Seminar">> >>

\* The (class, course) pairs of the run: classes in search order, courses in
\* the order of the class.
RECURSIVE BlocksFrom(_, _)
BlocksFrom(cls, i) ==
    IF i > Len(SearchOrder) THEN <<>>
    ELSE (IF SearchOrder[i] \in DOMAIN cls
          THEN [j \in 1..Len(cls[SearchOrder[i]]) |-> <<SearchOrder[i], cls[SearchOrder[i]][j].name>>]
          ELSE <<>>) \o BlocksFrom(cls, i + 1)

Blocks(cls) ==
    SelectSeq(SearchFirst, LAMBDA q : q \in ClassCourses(cls))
    \o SelectSeq(BlocksFrom(cls, 1),
                 LAMBDA q : q \notin {SearchFirst[i] : i \in DOMAIN SearchFirst})

BlockKeys(sv, q) == {key \in sv : key[1] = q[1] /\ key[2] = q[2]}

\* A sum that must stay at or below k is already above it on the variables
\* assigned so far: no extension of x satisfies c.
Exceeded(c, x) == c.kind \in {"eq", "le"} /\ Sum(c.a, x) > c.k

\* The assignments to the variables of blocks 1..i that satisfy every
\* constraint of m whose scope lies within those variables, and exceed no
\* sum that reaches into later blocks.
RECURSIVE Extend(_, _, _, _)
Extend(m, sv, blocks, i) ==
    IF i = 0 THEN {{}}
    ELSE LET keysI == BlockKeys(sv, blocks[i])
             seen == UNION {BlockKeys(sv, blocks[j]) : j \in 1..i}
             inner == {d : d \in {c \in m : Scope(c) \subseteq keysI}}
             cross == {d : d \in {c \in m : /\ Scope(c) \subseteq seen
                                             /\ ~ (Scope(c) \subseteq keysI)
                                             /\ Scope(c) \cap keysI # {}}}
             open == {d : d \in {c \in m : /\ ~ (Scope(c) \subseteq seen)
                                            /\ Scope(c) \cap keysI # {}
                                            /\ c.kind \in {"eq", "le"}}}
             cand == {y : y \in {z \in SUBSET keysI : \A c \in inner : Holds(c, z)}}
             prev == Extend(m, sv, blocks, i - 1)
         IN UNION {{x \cup y : y \in {z \in cand :
                                        /\ \A c \in cross : Holds(c, x \cup z)
                                        /\ \A c \in open : ~ Exceeded(c, x \cup z)}} :
                   x \in prev}

\* {x \in SUBSET sv : \A c \in m : Holds(c, x)}, computed block by block.
Solutions(m, sv, cls) == Extend(m, sv, Blocks(cls), Len(Blocks(cls)))

(***************************************************************************)
(* ClassScheduleSolver.get_solution                                        *)
(***************************************************************************)

CourseIndex(cls, c, k) == CHOOSE i \in DOMAIN cls[c] : cls[c][i].name = k

\* The entries get_solution writes for (class, day, period): the variables
\* with value 1 there.  Later writes replace earlier ones, so the entry that
\* stays is the course that comes last in the class's course order.
LastCourse(cls, x, c, s) ==
    CHOOSE k \in CourseNames(cls, c) :
        /\ Key(c, k, s) \in x
        /\ \A k2 \in CourseNames(cls, c) :
              Key(c, k2, s) \in x => CourseIndex(cls, c, k2) <= CourseIndex(cls, c, k)

\* (class_name, day, period) -> (course_name, teacher)
get_solution(cls, x) ==
    [e \in {<<key[1], key[3], key[4]>> : key \in x} |->
        <<LastCourse(cls, x, e[1], <<e[2], e[3]>>),
          CourseOf(cls, e[1], LastCourse(cls, x, e[1], <<e[2], e[3]>>)).teacher>>]

\* (class, day, period) in solution and solution[...][0] == course
Scheduled(sol, c, s, k) ==
    <<c, s[1], s[2]>> \in DOMAIN sol /\ sol[<<c, s[1], s[2]>>][1] = k

(***************************************************************************)
(* ClassScheduleSolver.validate_solution: the seven checks over the flat   *)
(* solution.  A defect is a record; the unused fields are blank.           *)
(***************************************************************************)

Defect(n, c, t, s, k) == [check |-> n, class |-> c, teacher |-> t, slot |-> s, course |-> k]

NoSlot == <<0, 0>>

\* Check 1: the number of entries of each (class, course) is periods_per_week.
Check1(cls, sol) ==
    {Defect(1, q[1], <<>>, NoSlot, q[2]) :
        q \in {r \in ClassCourses(cls) :
                  Cardinality({e \in DOMAIN sol : e[1] = r[1] /\ sol[e][1] = r[2]})
                      # PeriodsOf(cls, r[1], r[2])}}

\* Check 2 iterates the entries and does nothing ("enforced by data structure").
Check2(cls, sol) == {}

\* teacher_schedule[(teacher, day, period)]: the (class, course) entries whose
\* teacher string is the given one.
teacher_schedule(sol, teacher, s) ==
    {<<e[1], sol[e][1]>> : e \in {f \in DOMAIN sol : f[2] = s[1] /\ f[3] = s[2] /\ sol[f][2] = teacher}}

\* c.startswith(prefix): no course name of the catalog other than the prefix
\* itself starts with "Phys&Bio" or with "EAL".
startswith(c, prefix) == c = prefix

\* is_joint of check 3
IsJointEntries(entries) ==
    \E session \in joint_sessions :
        /\ {q[1] : q \in entries} \subseteq SessionClasses(session)
        /\ \A q \in entries :
              \/ q[2] = session.course_name
              \/ startswith(q[2], "Phys&Bio") \/ startswith(q[2], "EAL")

\* Check 3: one teacher string with several entries at a slot, unless the
\* entries fit a joint session or the string is "Shiwen" or "Wen".
Check3(sol) ==
    {Defect(3, "", q[1], q[2], "") :
        q \in {r \in {<<sol[e][2], <<e[2], e[3]>>>> : e \in DOMAIN sol} :
                  /\ Cardinality({e \in DOMAIN sol : e[2] = r[2][1] /\ e[3] = r[2][2] /\ sol[e][2] = r[1]}) > 1
                  /\ ~ IsJointEntries(teacher_schedule(sol, r[1], r[2]))
                  /\ r[1] \notin {<<"Shiwen">>, <<"Wen">>}}}

\* Check 4: some but not all classes of a joint session have its course.
Check4(sol) ==
    {Defect(4, "", <<>>, q[2], q[1].course_name) :
        q \in {r \in joint_sessions \X get_time_slots :
                  LET scheduled_classes ==
                          {c \in SessionClasses(r[1]) : Scheduled(sol, c, r[2], r[1].course_name)}
                  IN scheduled_classes # {} /\ scheduled_classes # SessionClasses(r[1])}}

english_teachers ==
    [t \in {"LZY", "CYF", "Ezio"} |->
        CASE t = "LZY" -> {"9-Eng-A", "9-Eng-E", "10-EAL-C"}
          [] t = "CYF" -> {"9-Eng-B", "10-EAL-B", "11-A", "11-B"}
          [] t = "Ezio" -> {"9-Eng-C", "9-Eng-D", "10-EAL-A", "12-A", "12-B"}]

EnglishCourses == {"English", "EAL", "AP Seminar", "AP Composition", "Literature"}

\* scheduled of check 5
EnglishEntries(sol, teacher, s) ==
    {<<c, sol[<<c, s[1], s[2]>>][1]>> :
        c \in {d \in english_teachers[teacher] :
                  <<d, s[1], s[2]>> \in DOMAIN sol /\ sol[<<d, s[1], s[2]>>][1] \in EnglishCourses}}

\* is_joint of check 5
IsJointEnglish(entries) ==
    \E session \in joint_sessions :
        /\ {q[1] : q \in entries} \subseteq SessionClasses(session)
        /\ \/ session.course_name \in {q[2] : q \in entries}
           \/ \A q \in entries : q[2] \in {"AP Seminar", "AP Composition"}

\* Check 5: an English teacher's listed classes have language courses together.
Check5(sol) ==
    {Defect(5, "", <<q[1]>>, q[2], "") :
        q \in {r \in (DOMAIN english_teachers) \X get_time_slots :
                  /\ Cardinality(EnglishEntries(sol, r[1], r[2])) > 1
                  /\ ~ IsJointEnglish(EnglishEntries(sol, r[1], r[2]))}}

\* Check 6 that reads E3 as an equivalence.
Check6BothWays(sol) ==
    {Defect(6, q[1][1], <<>>, q[2], "Psych&Geo") :
        q \in {r \in EALPairs \X get_time_slots :
                  Scheduled(sol, r[1][1], r[2], "Psych&Geo") # Scheduled(sol, r[1][2], r[2], "EAL")}}

\* Check 6 (E3): Psych&Geo of the class without EAL of its EAL class.
Check6(sol) ==
    {Defect(6, q[1][1], <<>>, q[2], "Psych&Geo") :
        q \in {r \in EALPairs \X get_time_slots :
                  /\ Scheduled(sol, r[1][1], r[2], "Psych&Geo")
                  /\ ~ Scheduled(sol, r[1][2], r[2], "EAL")}}

overlap_count(sol) ==
    Cardinality({s \in get_time_slots :
                    /\ Scheduled(sol, "10-EAL-C", s, "EAL")
                    /\ \/ Scheduled(sol, "10-A", s, "Phys&Bio")
                       \/ Scheduled(sol, "10-C", s, "Phys&Bio")})

\* overlap_count != 3
ExpectedOverlap == 3

\* Check 7 that reports only a count below ExpectedOverlap.
Check7Below(sol) ==
    IF overlap_count(sol) < ExpectedOverlap THEN {Defect(7, "10-EAL-C", <<>>, NoSlot, "EAL")} ELSE {}

\* Check 7 (E4): the overlap count is not ExpectedOverlap.
Check7(sol) ==
    IF overlap_count(sol) # ExpectedOverlap THEN {Defect(7, "10-EAL-C", <<>>, NoSlot, "EAL")} ELSE {}

\* The errors list, as a set.
validate_solution(cls, sol) ==
    Check1(cls, sol) \cup Check2(cls, sol) \cup Check3(sol) \cup Check4(sol)
    \cup Check5(sol) \cup Check6(sol) \cup Check7(sol)

(***************************************************************************)
(* The run of main(): construct, build_model, solve, validate_solution     *)
(***************************************************************************)

Found == {"OPTIMAL", "FEASIBLE"}

\* solve() answering True for a search cut short by the time limit.
SolveReturnsOnTimeout(st) == st \in Found \cup {"UNKNOWN"}

\* The value solve() returns for an engine status.
solve_returns(st) == st \in Found

\* get_solution(): None unless self.status is OPTIMAL or FEASIBLE.
returns_none(st) == st \notin Found

RECURSIVE SumPeriods(_, _)
SumPeriods(courses, i) ==
    IF i = 0 THEN 0 ELSE courses[i].periods_per_week + SumPeriods(courses, i - 1)

\* ClassGroup.total_periods()
total_periods(cls, c) == SumPeriods(cls[c], Len(cls[c]))

\* _validate_data prints the total periods of each class and the excluded and
\* required slots; it compares nothing and raises nothing.
_validate_data(cls) == TRUE

\* check_feasibility.py: the (class, course) pairs with fewer available slots
\* than periods_per_week.  The script prints the list; nothing in main() or in
\* ClassScheduleSolver calls it.
check_feasibility(cls, ts) ==
    {q \in ClassCourses(cls) :
        Cardinality({s \in ts :
                        /\ s \notin excluded_slots(q[1])
                        /\ ~ (/\ s \in DOMAIN required_slots(q[1])
                              /\ required_slots(q[1])[s] # q[2])})
            < PeriodsOf(cls, q[1], q[2])}

\* ClassScheduleSolver.__init__ on one of the given bounded catalogs.
\* A run constructed on one of the scenarios with one of the pairs of an
\* excluded map and a required map.
InitMaps(scenarios, maps) ==
    /\ scenario \in scenarios
    /\ \E m \in maps : excluded = m[1] /\ required = m[2]
    /\ set_order \in IterationOrders
    /\ classes = ScenarioClasses(scenario)
    /\ time_slots = ScenarioWindow(scenario)
    /\ _validate_data(classes)
    /\ schedule_vars = {}
    /\ model = {}
    /\ status = "NONE"
    /\ value = {}
    /\ solution = <<>>
    /\ verdict = FALSE
    /\ errors = {}
    /\ error_list = <<>>
    /\ success = FALSE
    /\ solution_is_none = TRUE
    /\ saved = FALSE
    /\ pc = "init"

\* A run on the maps data.py ships.
InitOn(scenarios) ==
    InitMaps(scenarios, {<<get_excluded_time_slots, get_required_time_slots>>})

Init == InitOn(Scenarios)

\* build_model: create the variables, then register every hard constraint and
\* soft term; a subscript of an absent key raises and ends the run.
BuildModel ==
    /\ pc = "init"
    /\ schedule_vars' = _create_variables(classes, time_slots)
    /\ model' = add_all_constraints(classes, schedule_vars', time_slots, set_order)
    /\ pc' = IF KeyErrors(classes, schedule_vars', time_slots, set_order) = {}
             THEN "built" ELSE "failed"
    /\ UNCHANGED <<scenario, excluded, required, classes, time_slots, set_order, status, value,
                   solution, verdict, errors, error_list, success, solution_is_none, saved>>

\* What the engine may answer for a model: (status, assignment).
EngineAnswers(m, sv, cls) ==
    LET sols == Solutions(m, sv, cls)
    IN (Found \X sols)
       \cup (IF sols = {} THEN {<<"INFEASIBLE", {}>>} ELSE {})
       \cup {<<"UNKNOWN", {}>>}

\* solve: self.status = self.solver.Solve(self.model, callback)
Solve ==
    /\ pc = "built"
    /\ \E answer \in EngineAnswers(model, schedule_vars, classes) :
          /\ status' = answer[1]
          /\ value' = answer[2]
    /\ success' = solve_returns(status')
    /\ pc' = "solved"
    /\ UNCHANGED <<scenario, excluded, required, classes, time_slots, set_order, schedule_vars, model,
                   solution, verdict, errors, error_list, solution_is_none, saved>>

NoSolution == Defect(0, "", <<>>, NoSlot, "")

\* The place of a defect in the errors list: the checks run in their order;
\* check 1 follows the classes and their courses, check 3 the first entry of
\* the solution with the teacher at the slot, check 4 the sessions, check 5
\* the three English teachers, check 6 the three EAL pairs, each then the
\* days and periods.
Rank(cls, sol, d) ==
    LET at(s) == s[1] * 8 + s[2]
        first ==
            CASE d.check = 1 ->
                    Position(ClassOrder, d.class) * 16 + CourseIndex(cls, d.class, d.course)
              [] d.check = 3 ->
                    LET e == CHOOSE f \in DOMAIN sol :
                                 /\ f[2] = d.slot[1] /\ f[3] = d.slot[2] /\ sol[f][2] = d.teacher
                                 /\ \A g \in DOMAIN sol :
                                       (g[2] = f[2] /\ g[3] = f[3] /\ sol[g][2] = d.teacher)
                                           => Position(ClassOrder, f[1]) <= Position(ClassOrder, g[1])
                    IN Position(ClassOrder, e[1]) * 16 + CourseIndex(cls, e[1], sol[e][1])
              [] d.check = 4 ->
                    CHOOSE i \in DOMAIN get_joint_sessions :
                        /\ get_joint_sessions[i].course_name = d.course
                        /\ \A j \in 1..(i - 1) : get_joint_sessions[j].course_name # d.course
              [] d.check = 5 ->
                    CASE d.teacher = <<"LZY">> -> 1 [] d.teacher = <<"CYF">> -> 2 [] OTHER -> 3
              [] d.check = 6 -> Position(ClassOrder, d.class)
              [] OTHER -> 0
    IN d.check * 100000 + first * 100 + at(d.slot)

RECURSIVE Listed(_, _, _)
\* The errors list: the defects in the order validate_solution appends them.
Listed(cls, sol, errs) ==
    IF errs = {} THEN <<>>
    ELSE LET d == CHOOSE x \in errs :
                      \A y \in errs : Rank(cls, sol, x) <= Rank(cls, sol, y)
         IN <<d>> \o Listed(cls, sol, errs \ {d})

\* validate_solution appending to a list kept from the call before.
CallValidateAppending ==
    /\ solution_is_none' = returns_none(status)
    /\ IF ~ solution_is_none'
       THEN /\ solution' = get_solution(classes, value)
            /\ errors' = validate_solution(classes, solution')
            /\ error_list' = error_list \o Listed(classes, solution', errors')
            /\ verdict' = (errors' = {})
       ELSE /\ solution' = <<>>
            /\ errors' = {NoSolution}
            /\ error_list' = <<NoSolution>>
            /\ verdict' = FALSE

\* A call of validate_solution(): get_solution, then the checks; where
\* get_solution returns None the answer is (False, ["No solution to validate"]).
CallValidate ==
    /\ solution_is_none' = returns_none(status)
    /\ IF ~ solution_is_none'
       THEN /\ solution' = get_solution(classes, value)
            /\ errors' = validate_solution(classes, solution')
            /\ error_list' = Listed(classes, solution', errors')
            /\ verdict' = (errors' = {})
       ELSE /\ solution' = <<>>
            /\ errors' = {NoSolution}
            /\ error_list' = <<NoSolution>>
            /\ verdict' = FALSE

\* validate_solution called once solve has returned.
Validate ==
    /\ pc = "solved"
    /\ CallValidate
    /\ pc' = "validated"
    /\ UNCHANGED <<scenario, excluded, required, classes, time_slots, set_order, schedule_vars, model,
                   status, value, success, saved>>

Next == BuildModel \/ Solve \/ Validate

Spec == Init /\ [][Next]_vars

(***************************************************************************)
(* Properties                                                              *)
(***************************************************************************)

\* The engine has answered with an assignment.
Answered == pc \in {"solved", "validated"} /\ status \in Found

Takes(c, k, s) == Key(c, k, s) \in value

\* The session unit of a (class, course) pair of a teacher: its joint session
\* (formal, or the teacher-level one) or the pair itself.
UnitOf(teacher, q) ==
    IF SessionKey(classes, teacher, q) # <<>>
    THEN SessionKey(classes, teacher, q)
    ELSE <<q[2], {q[1]}>>

\* The distinct session units the teacher teaches at the slot.
UnitsTaught(teacher, s) ==
    {UnitOf(teacher, q) :
        q \in {r \in teacher_classes(classes, teacher) : Takes(r[1], r[2], s)}}

\* C1: in every assignment satisfying the compiled hard constraints, every
\* individual teacher teaches at most one session unit at every slot.
C1_TeacherOneUnit ==
    Answered =>
        \A teacher \in Teachers(classes), s \in get_time_slots :
            Cardinality(UnitsTaught(teacher, s)) <= 1

\* C1, the case that breaks it: Wen teaches PE to 10-A and, in the same
\* slot, to the 12th grade class that the conflict sum left out.
C1_WenTwoUnits ==
    /\ Answered
    /\ \E s \in get_time_slots :
          Takes("10-A", "PE", s) /\ (Takes("12-A", "PE", s) \/ Takes("12-B", "PE", s))

\* The members of a joint session that take its course at the slot.
MembersTaking(session, s) ==
    {c \in SessionClasses(session) : Takes(c, session.course_name, s)}

\* C2: in every assignment satisfying the compiled hard constraints, at
\* every slot of the week the members of a joint session take its course
\* all together or not at all, also where only some members have a variable.
C2_JointAllOrNone ==
    Answered =>
        \A session \in joint_sessions, s \in get_time_slots :
            MembersTaking(session, s) \in {{}, SessionClasses(session)}

\* C2 witness: an answered run in which a joint session has a slot where one
\* member has a variable and another has none, and the session is taught.
C2_PartialSlotAnswered ==
    /\ Answered
    /\ Key("11-A", "Group 2 AP", <<1, 7>>) \in schedule_vars
    /\ Key("12-A", "Group 2 AP", <<1, 7>>) \notin schedule_vars
    /\ \E s \in get_time_slots : Takes("12-A", "Group 2 AP", s) /\ Takes("11-A", "Group 2 AP", s)

\* The number of slots at which the class takes the course.
Load(c, k) == Cardinality({s \in get_time_slots : Takes(c, k, s)})

\* C3: in every assignment satisfying the compiled hard constraints, every
\* course of every class is taken exactly periods_per_week times.
C3_LoadExact ==
    Answered =>
        \A q \in ClassCourses(classes) : Load(q[1], q[2]) = PeriodsOf(classes, q[1], q[2])

\* C3 witness: an answered run where 10-EAL-C takes its six EAL periods.
C3_LoadsMet ==
    /\ Answered
    /\ Load("10-EAL-C", "EAL") = 6
    /\ Load("10-A", "Phys&Bio") = 3

\* C4: in every assignment satisfying the compiled hard constraints, no
\* class has two course variables at 1 in one slot.
C4_OneCoursePerSlot ==
    Answered =>
        \A c \in DOMAIN classes, s \in get_time_slots :
            Cardinality({k \in CourseNames(classes, c) : Takes(c, k, s)}) <= 1

\* C4 witness: an answered run where a class with several courses falling in
\* the same slots is taught two of them on one day.
C4_SeveralCoursesAnswered ==
    /\ Answered
    /\ \E s1, s2 \in time_slots :
          /\ s1[1] = s2[1] /\ s1 # s2
          /\ Takes("10-A", "Phys&Bio", s1) /\ Takes("10-A", "PE", s2)
          /\ Key("10-A", "PE", s1) \in schedule_vars

AllClasses == {ClassOrder[i] : i \in DOMAIN ClassOrder}

AllCourseNames == UNION {CourseNames(get_class_groups, c) : c \in AllClasses}

\* C5: after _create_variables a key (class, course, day, period) exists
\* exactly when the course is a course of the class, the slot is in the grid
\* of the run, the slot is not excluded for the class and is not a required
\* slot of the class reserved for a different course; no other key exists.
C5_VariableSpace ==
    pc = "built" =>
        /\ schedule_vars \subseteq AllClasses \X AllCourseNames \X Days \X (1..8)
        /\ \A c \in AllClasses, k \in AllCourseNames, s \in Days \X (1..8) :
              Key(c, k, s) \in schedule_vars <=>
                  /\ c \in DOMAIN classes
                  /\ k \in CourseNames(classes, c)
                  /\ s \in time_slots
                  /\ s \notin excluded_slots(c)
                  /\ ~ (s \in DOMAIN required_slots(c) /\ required_slots(c)[s] # k)

\* C5 witness: the variables are built, 12-A has its PE variable at the slot
\* reserved for PE, no Counseling variable there, and 10-A has none at an
\* excluded slot.
C5_ReservedSlotBuilt ==
    /\ pc = "built"
    /\ Key("12-A", "PE", <<1, 7>>) \in schedule_vars
    /\ Key("12-A", "Counseling", <<1, 7>>) \notin schedule_vars
    /\ Key("10-A", "PE", <<4, 7>>) \in schedule_vars
    /\ Key("10-A", "PE", <<1, 7>>) \notin schedule_vars

\* C6: every assignment satisfying the compiled hard constraints is given
\* verdict True with no defect by validate_solution.
C6_FeasibleCertified ==
    (pc = "validated" /\ status \in Found) => (verdict /\ errors = {})

\* C6 witness: a validated run of the tenth grade catalog whose solution has
\* joint sessions, E3 pairs and the three E4 overlaps.
C6_TenthValidated ==
    /\ pc = "validated" /\ status \in Found /\ verdict
    /\ scenario = "tenth"
    /\ \E s \in time_slots :
          Scheduled(solution, "10-B", s, "Psych&Geo") /\ Scheduled(solution, "10-EAL-B", s, "EAL")
    /\ \E s \in time_slots : Scheduled(solution, "12-B", s, "Group 2 AP")
    /\ overlap_count(solution) = 3

\* The (class, course) entries of the flat solution at a slot whose teacher
\* string names the individual teacher.
EntriesOf(teacher, s) ==
    {<<e[1], solution[e][1]>> :
        e \in {f \in DOMAIN solution :
                  /\ f[2] = s[1] /\ f[3] = s[2]
                  /\ \E i \in DOMAIN solution[f][2] : solution[f][2][i] = teacher}}

\* Some individual teacher has, at one slot, entries of more than one unit.
DoubleBooked ==
    \E teacher \in Teachers(classes), s \in get_time_slots :
        Cardinality({UnitOf(teacher, q) : q \in EntriesOf(teacher, s)}) > 1

\* C7: validate_solution answers False, with a defect, for every flat
\* assignment in which an individual teacher is double-booked outside a
\* legitimate joint session; Wen and Shiwen included.
C7_DoubleBookingRejected ==
    (pc = "validated" /\ status \in Found /\ DoubleBooked) => (~ verdict /\ errors # {})

\* C7, the case that breaks it: Wen has 10-A PE and a 12th grade PE in one
\* slot of a solution that validate_solution certifies.
C7_WenAccepted ==
    /\ pc = "validated" /\ verdict
    /\ \E s \in time_slots :
          /\ Scheduled(solution, "10-A", s, "PE")
          /\ Scheduled(solution, "12-A", s, "PE") \/ Scheduled(solution, "12-B", s, "PE")

\* C10: in every assignment satisfying the compiled hard constraints, Psych&Geo
\* of 10-A/B/C at a slot implies EAL of its EAL class there; where the EAL class
\* has EAL without Psych&Geo, the E3 constraint of that slot is satisfied and
\* check 6 reports nothing for it.
C10_E3OneWay ==
    Answered =>
        \A q \in EALPairs, s \in get_time_slots :
            /\ Takes(q[1], "Psych&Geo", s) => Takes(q[2], "EAL", s)
            /\ (Takes(q[2], "EAL", s) /\ ~ Takes(q[1], "Psych&Geo", s)) =>
                  /\ \A c \in model :
                        (c.fam = "E3" /\ Key(q[2], "EAL", s) \in c.b) => Holds(c, value)
                  /\ pc = "validated" =>
                        ~ \E d \in errors : d.check = 6 /\ d.class = q[1] /\ d.slot = s

\* C10 witness: a validated run where 10-C has Psych&Geo with 10-EAL-C EAL in
\* one slot, and 10-EAL-C has EAL without 10-C Psych&Geo in another slot for
\* which an E3 constraint was compiled.
C10_EALWithoutPsych ==
    /\ pc = "validated" /\ status \in Found
    /\ \E s \in time_slots : Takes("10-C", "Psych&Geo", s) /\ Takes("10-EAL-C", "EAL", s)
    /\ \E s \in time_slots :
          /\ Takes("10-EAL-C", "EAL", s) /\ ~ Takes("10-C", "Psych&Geo", s)
          /\ \E c \in model : c.fam = "E3" /\ Key("10-EAL-C", "EAL", s) \in c.b

(***************************************************************************)
(* validate_solution as an independent re-check.  The assignment it is     *)
(* given comes from an engine run in which the encoding of one family is   *)
(* missing (SpecRecheck), or from an engine whose answer has one course    *)
(* variable too many at a slot the class already uses (SpecEngineFault).   *)
(***************************************************************************)

\* The registered constraints without those of one family.
WithoutFamily(m, fam) == {c \in m : c.fam # fam}

\* solve, on a model from which the constraints of family O are missing.
SolveWithoutO ==
    /\ pc = "built"
    /\ value' \in Solutions(WithoutFamily(model, "O"), schedule_vars, classes)
    /\ status' = "FEASIBLE"
    /\ success' = solve_returns(status')
    /\ pc' = "solved"
    /\ UNCHANGED <<scenario, excluded, required, classes, time_slots, set_order, schedule_vars, model,
                   solution, verdict, errors, error_list, solution_is_none, saved>>

NextRecheck == BuildModel \/ SolveWithoutO \/ Validate

SpecRecheck == Init /\ [][NextRecheck]_vars

\* The variables that are 0 in x at a slot where the class has a course in x.
ClashingKeys(cls, sv, x) ==
    {key \in sv \ x :
        \E k \in CourseNames(cls, key[1]) : Key(key[1], k, SlotOf(key)) \in x}

\* solve, with an engine that sets one clashing variable to 1 on top of an
\* assignment satisfying the model.
SolveFaulty ==
    /\ pc = "built"
    /\ \E x \in Solutions(model, schedule_vars, classes) :
          \E key \in ClashingKeys(classes, schedule_vars, x) : value' = x \cup {key}
    /\ status' = "FEASIBLE"
    /\ success' = solve_returns(status')
    /\ pc' = "solved"
    /\ UNCHANGED <<scenario, excluded, required, classes, time_slots, set_order, schedule_vars, model,
                   solution, verdict, errors, error_list, solution_is_none, saved>>

NextEngineFault == BuildModel \/ SolveFaulty \/ Validate

SpecEngineFault == Init /\ [][NextEngineFault]_vars

\* Rule O on the engine values: Group 2 AP of an 11th/12th grade class at a
\* slot without 10-A Chemistry or Phys&Bio there.
ViolatesO ==
    \E c \in {"11-A", "11-B", "12-A", "12-B"}, s \in get_time_slots :
        /\ Takes(c, "Group 2 AP", s)
        /\ ~ (Takes("10-A", "Chemistry", s) \/ Takes("10-A", "Phys&Bio", s))

ViolatesE3 ==
    \E q \in EALPairs, s \in get_time_slots :
        Takes(q[1], "Psych&Geo", s) /\ ~ Takes(q[2], "EAL", s)

ViolatesL ==
    \E s \in get_time_slots : Takes("10-A", "English", s) /\ ~ Takes("9-Eng-A", "English", s)

\* C8: validate_solution answers False for every assignment that violates
\* one of the implication families E3, L, O.
C8_ImplicationsRechecked ==
    (pc = "validated" /\ status \in Found /\ (ViolatesE3 \/ ViolatesL \/ ViolatesO))
        => ~ verdict

\* C8, the case that breaks it: the joint Group 2 AP session meets while 10-A
\* has neither Chemistry nor Phys&Bio, and the solution is certified.
C8_RuleOBrokenAccepted ==
    /\ pc = "validated" /\ verdict
    /\ \E s \in time_slots :
          /\ \A c \in {"11-A", "11-B", "12-A", "12-B"} : Scheduled(solution, c, s, "Group 2 AP")
          /\ Scheduled(solution, "10-A", s, "Psych&Geo")

\* Two course variables of one class are 1 at one slot.
ClassDoubleBooked ==
    \E c \in DOMAIN classes, s \in time_slots :
        Cardinality({k \in CourseNames(classes, c) : Takes(c, k, s)}) > 1

\* C9: whenever the engine values set two course variables of one class to
\* 1 at one slot, get_solution followed by validate_solution answers False.
C9_ClassClashRejected ==
    (pc = "validated" /\ status \in Found /\ ClassDoubleBooked) => ~ verdict

\* C9, the case that breaks it: 10-A has both Psych&Geo and Chemistry at 1 in
\* one slot, the flat solution keeps only Chemistry, and it is certified.
C9_ClashCollapsedAccepted ==
    /\ pc = "validated" /\ verdict
    /\ \E s \in time_slots :
          /\ Takes("10-A", "Psych&Geo", s) /\ Takes("10-A", "Chemistry", s)
          /\ Scheduled(solution, "10-A", s, "Chemistry")

(***************************************************************************)
(* Runs in which the engine either honours its contract or returns the     *)
(* faulty assignment of SolveFaulty: validate_solution sees both kinds.    *)
(***************************************************************************)

NextEither == BuildModel \/ Solve \/ SolveFaulty \/ Validate

SpecEither == Init /\ [][NextEither]_vars

\* The engine's values satisfy every compiled hard constraint.
Satisfies == \A c \in model : Holds(c, value)

\* Slots where 10-EAL-C takes EAL and 10-A or 10-C takes Phys&Bio, counted on
\* the engine's values.
EngineOverlap ==
    Cardinality({s \in get_time_slots :
                    /\ Takes("10-EAL-C", "EAL", s)
                    /\ Takes("10-A", "Phys&Bio", s) \/ Takes("10-C", "Phys&Bio", s)})

\* C11: in every assignment satisfying the compiled hard constraints, 10-EAL-C
\* takes EAL together with Phys&Bio of 10-A or 10-C at exactly 3 slots (a slot
\* where both take it counts once); validate_solution reports an E4 defect
\* exactly when the count recomputed from the flat solution is not 3.
C11_ExactOverlap ==
    /\ (Answered /\ Satisfies) => EngineOverlap = 3
    /\ (pc = "validated" /\ status \in Found) =>
          ((\E d \in errors : d.check = 7) <=> overlap_count(solution) # 3)

\* C11 witness: a validated run on a satisfying assignment with three overlap
\* slots, at one of which both 10-A and 10-C take Phys&Bio, and no E4 defect.
C11_ThreeOverlapsValidated ==
    /\ pc = "validated" /\ status \in Found /\ Satisfies
    /\ EngineOverlap = 3
    /\ \E s \in time_slots :
          /\ Takes("10-EAL-C", "EAL", s)
          /\ Takes("10-A", "Phys&Bio", s) /\ Takes("10-C", "Phys&Bio", s)
    /\ ~ \E d \in errors : d.check = 7

\* C12: in every assignment satisfying the compiled hard constraints, two
\* slots of one day at which a class takes the same course have period
\* numbers that differ by exactly 1.
C12_SameDayAdjacent ==
    (Answered /\ Satisfies) =>
        \A q \in ClassCourses(classes), s1 \in get_time_slots, s2 \in get_time_slots :
            (s1[1] = s2[1] /\ s1[2] < s2[2] /\ Takes(q[1], q[2], s1) /\ Takes(q[1], q[2], s2))
                => s2[2] = s1[2] + 1

\* C12 witness: a satisfying assignment in which 10-EAL-C takes EAL twice on a
\* day that also offers it a slot two periods away.
C12_TwiceOnOneDay ==
    /\ Answered /\ Satisfies
    /\ \E s1 \in time_slots, s2 \in time_slots :
          /\ s1[1] = s2[1] /\ s2[2] = s1[2] + 1
          /\ Takes("10-EAL-C", "EAL", s1) /\ Takes("10-EAL-C", "EAL", s2)
          /\ \E s3 \in time_slots :
                /\ s3[1] = s1[1] /\ s3[2] > s2[2]
                /\ Key("10-EAL-C", "EAL", s3) \in schedule_vars

(***************************************************************************)
(* Runs on a catalog whose class needs more periods than it has slots.     *)
(***************************************************************************)

SpecOverfull == InitOn(Scenarios \cup {"overfull"}) /\ [][Next]_vars

\* Some class's total required periods exceed its non-excluded slots.
Overfull(cls, ts) ==
    \E c \in DOMAIN cls : total_periods(cls, c) > Cardinality(ts \ excluded_slots(c))

\* C13: a catalog in which a class's total required periods exceed its number
\* of non-excluded slots is rejected before the engine is invoked: such a run
\* never gets as far as the engine's Solve call.
C13_OverfullRejected ==
    Overfull(classes, time_slots) => pc \notin {"solved", "saved", "validated", "done"}

\* C13, the case that breaks it: 10-EAL-C needs six periods, has four slots,
\* the model is compiled and the engine is asked and answers INFEASIBLE.
C13_OverfullSolved ==
    /\ Overfull(classes, time_slots)
    /\ total_periods(classes, "10-EAL-C") = 6
    /\ Cardinality(time_slots \ excluded_slots("10-EAL-C")) = 4
    /\ check_feasibility(classes, time_slots) = {<<"10-EAL-C", "EAL">>}
    /\ pc = "solved" /\ status = "INFEASIBLE"

(***************************************************************************)
(* main() step by step, with every engine status, and validate_solution    *)
(* also called where no solution exists: before solve, and after a run     *)
(* that main() gave up.                                                    *)
(***************************************************************************)

\* solve, with an engine that refuses the model.
SolveRejected ==
    /\ pc = "built"
    /\ status' = "MODEL_INVALID"
    /\ value' = {}
    /\ success' = solve_returns(status')
    /\ pc' = "solved"
    /\ UNCHANGED <<scenario, excluded, required, classes, time_slots, set_order, schedule_vars, model,
                   solution, verdict, errors, error_list, solution_is_none, saved>>

\* main: if not success: return
GiveUp ==
    /\ pc = "solved" /\ ~ success
    /\ pc' = "done"
    /\ UNCHANGED <<scenario, excluded, required, classes, time_slots, set_order, schedule_vars, model,
                   status, value, solution, verdict, errors, error_list, success,
                   solution_is_none, saved>>

\* main: ScheduleOutput(solver), the printed schedules, save_to_csv and
\* save_report, which validates the solution for the report.
SaveOutput ==
    /\ pc = "solved" /\ success
    /\ CallValidate
    /\ saved' = TRUE
    /\ pc' = "saved"
    /\ UNCHANGED <<scenario, excluded, required, classes, time_slots, set_order, schedule_vars, model,
                   status, value, success>>

\* main: is_valid, errors = solver.validate_solution()
ValidateSaved ==
    /\ pc = "saved"
    /\ CallValidate
    /\ pc' = "validated"
    /\ UNCHANGED <<scenario, excluded, required, classes, time_slots, set_order, schedule_vars, model,
                   status, value, success, saved>>

\* validate_solution called on a solver that has not solved, or whose run
\* main() gave up.
ValidateUnsolved ==
    /\ pc \in {"init", "built", "done"}
    /\ CallValidate
    /\ UNCHANGED <<scenario, excluded, required, classes, time_slots, set_order, schedule_vars, model,
                   status, value, success, saved, pc>>

NextMain ==
    BuildModel \/ Solve \/ SolveRejected \/ GiveUp \/ SaveOutput \/ ValidateSaved
    \/ ValidateUnsolved

SpecMain == Init /\ [][NextMain]_vars

\* C14: solve() returns True exactly when the engine status is OPTIMAL or
\* FEASIBLE; for every other status, and before solve was called,
\* get_solution returns None and validate_solution returns
\* (False, ["No solution to validate"]); main writes the output files and
\* validates only after solve returned True.
C14_NoSolutionHandled ==
    /\ pc \in {"solved", "saved", "validated", "done"} => (success <=> status \in Found)
    /\ pc \in {"init", "built"} => (status = "NONE" /\ ~ success)
    /\ status \notin Found =>
          /\ solution_is_none
          /\ errors # {} => (errors = {NoSolution} /\ ~ verdict)
    /\ (saved \/ pc \in {"saved", "validated"}) => success

\* C14 witness: the engine ran out of time, solve returned False, main gave
\* up without output, and validate_solution then answered that there is no
\* solution to validate.
C14_TimeoutNoSolution ==
    /\ pc = "done" /\ status = "UNKNOWN" /\ ~ success /\ ~ saved
    /\ solution_is_none /\ ~ verdict /\ errors = {NoSolution}

\* C15: in every assignment satisfying the compiled hard constraints, each
\* required slot of a class holds exactly its pinned course: 12-A and 12-B
\* take PE at Tuesday period 7 and Counseling at Tuesday period 8, and no
\* other course of those classes is taken at those two slots.
C15_RequiredSlotsPinned ==
    (Answered /\ Satisfies) =>
        \A c \in DOMAIN get_required_time_slots \cap DOMAIN classes :
            \A s \in DOMAIN get_required_time_slots[c], k \in CourseNames(classes, c) :
                Takes(c, k, s) <=> k = get_required_time_slots[c][s]

\* C15 witness: a satisfying assignment of a catalog in which 12-A and 12-B
\* have PE and Counseling, with both pinned slots taken and the second PE
\* period of 12-B elsewhere.
C15_PinnedTaken ==
    /\ Answered /\ Satisfies
    /\ Takes("12-A", "PE", <<1, 7>>) /\ Takes("12-A", "Counseling", <<1, 8>>)
    /\ Takes("12-B", "PE", <<1, 7>>) /\ Takes("12-B", "Counseling", <<1, 8>>)
    /\ \E s \in time_slots : s # <<1, 7>> /\ Takes("12-B", "PE", s)

(***************************************************************************)
(* Runs on the catalogs of the 10th grade with its EAL classes, of the     *)
(* 11th grade with Art and PE, and of Art of 9-A and 10-A.                 *)
(***************************************************************************)

SpecDaily == InitOn({"tenth", "eleventh", "art"}) /\ [][Next]_vars

\* The number of periods of the course the class takes on the day.
DayLoad(c, k, day) == Cardinality({s \in get_time_slots : s[1] = day /\ Takes(c, k, s)})

\* C16: in every assignment satisfying the compiled hard constraints, for every
\* class (the EAL classes included), course and day, the class takes the course
\* at most twice that day if the course has 5 or more weekly periods or is
\* Art, and at most once otherwise.
C16_DailyCaps ==
    (Answered /\ Satisfies) =>
        \A q \in ClassCourses(classes), day \in Days :
            DayLoad(q[1], q[2], day)
                <= (IF PeriodsOf(classes, q[1], q[2]) >= 5 \/ q[2] = "Art" THEN 2 ELSE 1)

\* C16 witness: a satisfying assignment in which 10-EAL-A, for which no daily
\* constraint is compiled, takes its three EAL periods on three days, and
\* 10-EAL-C takes EAL twice on one day.
C16_EALWithinCaps ==
    /\ Answered /\ Satisfies
    /\ ~ \E c \in model : c.fam = "F" /\ \E key \in c.a : key[1] \in EALClasses
    /\ \A day \in WindowDays : DayLoad("10-EAL-A", "EAL", day) = 1
    /\ \E day \in WindowDays : DayLoad("10-EAL-C", "EAL", day) = 2

(***************************************************************************)
(* Runs on the catalog of the 9th grade tracking and administrative        *)
(* classes.                                                                *)
(***************************************************************************)

SpecNinth == InitOn({"ninth", "tracking"}) /\ [][Next]_vars

\* Some class of the set takes English at the slot.
TakesEnglish(cs, s) == \E c \in cs \cap DOMAIN classes : Takes(c, "English", s)

\* No class of the set takes any course at the slot.
Free(cs, s) ==
    \A c \in cs \cap DOMAIN classes : \A k \in CourseNames(classes, c) : ~ Takes(c, k, s)

\* C17: in every assignment satisfying the compiled hard constraints, at every
\* slot where 9-Eng-A, 9-Eng-B or 9-Eng-C takes English neither 9-A nor 9-B
\* takes any course, and at every slot where 9-Eng-D or 9-Eng-E takes English
\* 9-C takes no course.
C17_TrackingFreesAdmin ==
    (Answered /\ Satisfies) =>
        \A s \in get_time_slots :
            /\ TakesEnglish({"9-Eng-A", "9-Eng-B", "9-Eng-C"}, s) => Free({"9-A", "9-B"}, s)
            /\ TakesEnglish({"9-Eng-D", "9-Eng-E"}, s) => Free({"9-C"}, s)

\* C17 witness: a satisfying assignment in which 9-Eng-C and 9-Eng-E, which no
\* constraint of families T and U names, take English at slots where 9-B and
\* 9-C have variables, and 9-B and 9-C have their courses at other slots.
C17_UnnamedTrackingClasses ==
    /\ Answered /\ Satisfies
    /\ ~ \E c \in model : c.fam \in {"T", "U"} /\ \E key \in c.a : key[1] \in {"9-Eng-C", "9-Eng-E"}
    /\ \E s \in time_slots :
          Takes("9-Eng-C", "English", s) /\ Key("9-B", "Social", s) \in schedule_vars
    /\ \E s \in time_slots :
          Takes("9-Eng-E", "English", s) /\ Key("9-C", "Algebra", s) \in schedule_vars
    /\ Load("9-B", "Social") = 4 /\ Load("9-C", "Algebra") = 5

\* In a satisfying assignment, Group 2 AP of an 11th/12th grade class at a
\* slot comes with 10-A Chemistry or Phys&Bio there.
RuleOHolds == (Answered /\ Satisfies) => ~ ViolatesO

\* Every Group 2 AP variable of the four classes is the premise of a compiled
\* constraint of family O whose conclusion is the 10-A variables of the slot.
RuleOCompiledEverywhere ==
    pc # "init" =>
        \A c \in {"11-A", "11-B", "12-A", "12-B"}, s \in time_slots :
            Key(c, "Group 2 AP", s) \in schedule_vars =>
                \E con \in model :
                    /\ con.fam = "O" /\ con.a = {Key(c, "Group 2 AP", s)}
                    /\ con.b = TenAKeys(schedule_vars, s)

\* C18: in every assignment satisfying the compiled hard constraints, wherever
\* one of 11-A, 11-B, 12-A, 12-B takes Group 2 AP, 10-A takes Chemistry or
\* Phys&Bio; and the rule is compiled at every slot, also where only one or
\* neither of the two 10-A variables exists (Tuesday periods 7 and 8).
C18_RuleONeverSkipped == RuleOHolds /\ RuleOCompiledEverywhere

\* C18, the case that breaks it: at Tuesday period 7, 11-A has a Group 2 AP
\* variable, 10-A has neither variable, and no constraint of family O names
\* the 11-A variable, while the rule is compiled at Monday period 1.
C18_SkippedAtTuesdaySeven ==
    /\ pc = "built"
    /\ Key("11-A", "Group 2 AP", <<1, 7>>) \in schedule_vars
    /\ TenAKeys(schedule_vars, <<1, 7>>) = {}
    /\ ~ \E con \in model : con.fam = "O" /\ Key("11-A", "Group 2 AP", <<1, 7>>) \in con.a
    /\ \E con \in model :
          /\ con.fam = "O" /\ con.a = {Key("11-A", "Group 2 AP", <<0, 1>>)}
          /\ con.b = {Key("10-A", "Chemistry", <<0, 1>>), Key("10-A", "Phys&Bio", <<0, 1>>)}

\* ---------------------------------------------------------------------
\* Conflicting course pairs (families I, J, K, P, V with B and C).

\* The 9th, 11th / 12th grade catalogs the conflict families range over.
SpecConflicts == InitOn({"ninth", "eleventh", "seminar", "physics"}) /\ [][Next]_vars

\* Some class of the set takes the course at the slot.
TakesCourse(cs, k, s) == \E c \in cs : Takes(c, k, s)

UpperClasses == {"11-A", "11-B", "12-A", "12-B"}

NinthClasses == {"9-A", "9-B", "9-C"}

\* C19: in every assignment satisfying the compiled hard constraints, no slot
\* holds both AP Seminar of 12-A / 12-B and English of 10-A / 10-B / 10-C or
\* Social of 9-A / 9-B / 9-C, nor Group 1 AP or Group 2 AP of an 11th / 12th
\* grade class and Physics of 9-A / 9-B / 9-C, nor Art of any class and
\* Group 1 AP of any class, nor English of 9-Eng-A / B / C and English of
\* 9-Eng-D / E.
C19_PairsNeverCoincide ==
    (Answered /\ Satisfies) =>
        \A s \in get_time_slots :
            /\ ~ (/\ TakesCourse({"12-A", "12-B"}, "AP Seminar", s)
                  /\ \/ TakesCourse({"10-A", "10-B", "10-C"}, "English", s)
                     \/ TakesCourse(NinthClasses, "Social", s))
            /\ ~ (/\ \/ TakesCourse(UpperClasses, "Group 1 AP", s)
                     \/ TakesCourse(UpperClasses, "Group 2 AP", s)
                  /\ TakesCourse(NinthClasses, "Physics", s))
            /\ ~ (/\ TakesCourse(AllClasses, "Art", s)
                  /\ TakesCourse(AllClasses, "Group 1 AP", s))
            /\ ~ (/\ TakesCourse({"9-Eng-A", "9-Eng-B", "9-Eng-C"}, "English", s)
                  /\ TakesCourse({"9-Eng-D", "9-Eng-E"}, "English", s))

\* C19 witness: an answered run where 9-A takes its Physics periods and 12-B
\* takes Group 2 AP at a slot where 9-A has a Physics variable too.
C19_PhysicsBesideGroupTwo ==
    /\ Answered
    /\ Satisfies
    /\ scenario = "physics"
    /\ Load("9-A", "Physics") = PeriodsOf(classes, "9-A", "Physics")
    /\ Load("12-B", "Group 2 AP") = PeriodsOf(classes, "12-B", "Group 2 AP")
    /\ \E s \in get_time_slots :
          /\ Takes("12-B", "Group 2 AP", s)
          /\ Key("9-A", "Physics", s) \in schedule_vars
          /\ ~ Takes("9-A", "Physics", s)

\* ---------------------------------------------------------------------
\* Compiling on other excluded and required maps.

\* At most MaxEdits entries are added to each map.
MaxEdits == 1

\* Entries added to the excluded map: (class, slot).
ExtraExcluded ==
    {<<"12-A", <<1, 7>>>>, <<"10-EAL-C", <<0, 1>>>>, <<"10-A", <<0, 1>>>>,
     <<"9-Eng-D", <<0, 1>>>>, <<"11-A", <<0, 1>>>>}

\* Entries added to the required map: (class, slot, course).
ExtraRequired ==
    {<<"12-A", <<0, 1>>, "Counseling">>, <<"10-A", <<0, 1>>, "Phys&Bio">>,
     <<"9-C", <<0, 1>>, "Algebra">>, <<"12-B", <<0, 1>>, "AP Seminar">>}

\* The maps of the catalogs: the shipped maps or empty maps, with at most
\* MaxEdits entries added to each; an added required entry replaces the entry
\* of its slot.
CatalogMaps ==
    LET ExcludedWith(base, added) ==
            [c \in DOMAIN base \cup {x[1] : x \in added} |->
                (IF c \in DOMAIN base THEN base[c] ELSE {})
                \cup {x[2] : x \in {y \in added : y[1] = c}}]
        RequiredWith(base, added) ==
            [c \in DOMAIN base \cup {x[1] : x \in added} |->
                [s \in (IF c \in DOMAIN base THEN DOMAIN base[c] ELSE {})
                       \cup {x[2] : x \in {y \in added : y[1] = c}} |->
                    IF \E x \in added : x[1] = c /\ x[2] = s
                    THEN (CHOOSE x \in added : x[1] = c /\ x[2] = s)[3]
                    ELSE base[c][s]]]
        Edits(entries) == {e \in SUBSET entries : Cardinality(e) <= MaxEdits}
    IN {<<ExcludedWith(b[1], x), RequiredWith(b[2], r)>> :
           b \in {<<get_excluded_time_slots, get_required_time_slots>>,
                  <<[c \in {} |-> {}], [c \in {} |-> <<>>]>>},
           x \in Edits(ExtraExcluded), r \in Edits(ExtraRequired)}

\* build_model on the 10th, 12th and 9th grade catalogs with any of the maps.
SpecCatalogs ==
    InitMaps({"tenth", "shared", "ninth", "seminar", "fullday"}, CatalogMaps)
    /\ [][BuildModel]_vars

\* C20: on every catalog, whatever its excluded and required maps, build_model
\* ends without subscripting a key the variable space does not hold, and no
\* compiled constraint mentions such a key.
C20_NoAbsentKey ==
    /\ pc # "failed"
    /\ pc = "built" => \A c \in model : Scope(c) \subseteq schedule_vars

\* C20 witness: a model built on maps that exclude Tuesday period 7 for 12-A,
\* the slot the required map pins PE to: the key E1 refers to does not exist,
\* and 12-B keeps its pinned variable.
C20_PinnedKeyExcluded ==
    /\ pc = "built"
    /\ "12-A" \in DOMAIN classes
    /\ "PE" \in CourseNames(classes, "12-A")
    /\ <<1, 7>> \in excluded_slots("12-A")
    /\ <<1, 7>> \in DOMAIN required_slots("12-A")
    /\ required_slots("12-A")[<<1, 7>>] = "PE"
    /\ Key("12-A", "PE", <<1, 7>>) \notin schedule_vars
    /\ Key("12-B", "PE", <<1, 7>>) \in schedule_vars
    /\ \E c \in model : c.fam = "E1" /\ Key("12-B", "PE", <<1, 7>>) \in Scope(c)

\* ---------------------------------------------------------------------
\* validate_solution as a read-only, repeatable call.

\* main on an engine that may also answer with a double-booked assignment.
NextTwice == NextMain \/ SolveFaulty

SpecTwice == InitOn({"eleventh"}) /\ [][NextTwice]_vars

\* A step that calls validate_solution: main's report and its final check,
\* or a call outside main that leaves the run where it is.
ValidateStep ==
    \/ pc = "solved" /\ pc' \in {"saved", "validated"}
    \/ pc = "saved" /\ pc' = "validated"
    \/ pc' = pc

\* C21: a call of validate_solution leaves the status, the schedule variables,
\* the compiled model, the catalog (classes, time slots, excluded and required
\* maps) and the engine's assignment as they were, so the engine is not
\* invoked; and the call main makes after the report, on the state the report
\* validated, returns the verdict and the ordered defect list the report got.
C21_ValidateReadOnly ==
    [][/\ ValidateStep =>
            UNCHANGED <<status, schedule_vars, model, classes, time_slots, excluded,
                        required, value, success>>
       /\ (pc = "saved" /\ pc' = "validated") =>
            /\ verdict' = verdict
            /\ error_list' = error_list
            /\ errors' = errors
            /\ solution' = solution]_vars

\* C21 witness: main validated twice a solved run, and the list it got both
\* times holds defects of two different checks.
C21_TwiceListed ==
    /\ pc = "validated"
    /\ saved
    /\ status \in Found
    /\ ~ verdict
    /\ Len(error_list) >= 2
    /\ error_list[1].check # error_list[Len(error_list)].check

\* ---------------------------------------------------------------------
\* 11-A English held with 12th grade AP Seminar (family H).

\* The slots of the week where 12-A has no AP Seminar variable.
NoSeminarKey ==
    {s \in time_slots : Key("12-A", "AP Seminar", s) \notin schedule_vars}

\* C22: in every assignment satisfying the compiled hard constraints, at every
\* slot of the week 11-A takes English exactly when 12-A takes AP Seminar and
\* exactly when 12-B does, also at the slots where 12-A has no AP Seminar
\* variable and H emits no equality.
C22_EnglishWithSeminar ==
    (Answered /\ Satisfies) =>
        \A s \in get_time_slots :
            /\ Takes("11-A", "English", s) <=> Takes("12-A", "AP Seminar", s)
            /\ Takes("11-A", "English", s) <=> Takes("12-B", "AP Seminar", s)

\* C22 witness: an answered run where 11-A has English variables at Tuesday
\* periods 7 and 8 and Friday period 7, 12-A has no AP Seminar variable there,
\* H names none of these slots, and 11-A takes its five English periods.
C22_UnpairedEnglishKeys ==
    /\ Answered
    /\ Satisfies
    /\ scenario = "seminar"
    /\ {<<1, 7>>, <<1, 8>>, <<4, 7>>} \subseteq NoSeminarKey
    /\ \A s \in {<<1, 7>>, <<1, 8>>, <<4, 7>>} :
          /\ Key("11-A", "English", s) \in schedule_vars
          /\ ~ \E c \in model : c.fam = "H" /\ Key("11-A", "English", s) \in Scope(c)
    /\ Load("11-A", "English") = 5
    /\ Load("12-A", "AP Seminar") = 5

\* ---------------------------------------------------------------------
\* Tracking English over the week (family R, part 2).

TrackingClasses == {"9-Eng-A", "9-Eng-B", "9-Eng-C", "9-Eng-D", "9-Eng-E"}

\* C23: in every assignment satisfying the compiled hard constraints, each
\* tracking class has English twice on exactly one day and at most once on
\* every other day, and so, with six periods a week, on all five days.
C23_TrackingPattern ==
    (Answered /\ Satisfies) =>
        \A c \in TrackingClasses \cap DOMAIN classes :
            /\ Cardinality({d \in Days : DayLoad(c, "English", d) = 2}) = 1
            /\ \A d \in Days : DayLoad(c, "English", d) \in {1, 2}

\* C23 witness: an answered run where 9-Eng-B has its six English periods
\* and 9-Eng-A and 9-Eng-D have their double period on different days.
C23_SixOverFiveDays ==
    /\ Answered
    /\ Satisfies
    /\ scenario = "ninth"
    /\ Load("9-Eng-B", "English") = 6
    /\ \E d \in Days :
          /\ DayLoad("9-Eng-A", "English", d) = 2
          /\ DayLoad("9-Eng-D", "English", d) = 1

\* ---------------------------------------------------------------------
\* Art of the 9th and 10th grade: days with two periods (families R and S).

\* The days on which the class takes Art twice in the assignment x.
ArtDoubleDays(x, c) ==
    {d \in Days : Cardinality({s \in get_time_slots : s[1] = d /\ Key(c, "Art", s) \in x}) = 2}

\* C24: the model compiled for Art of 9-A and 10-A bounds the days with two
\* Art periods by at most 1 and does not fix them to 1: for each of the two
\* classes it accepts an assignment with both Art periods on one day and an
\* assignment with one Art period on each of two days.
C24_ArtOneDayOrTwo ==
    (pc = "built" /\ scenario = "art") =>
        /\ \A c \in {"9-A", "10-A"} :
              \E k \in model : k.kind = "days_le" /\ k.k = 1 /\ k.a \subseteq {Key(c, "Art", s) : s \in time_slots}
        /\ ~ \E k \in model : k.kind = "days_eq"
        /\ \A c \in {"9-A", "10-A"} :
              /\ \E x \in Solutions(model, schedule_vars, classes) :
                    Cardinality(ArtDoubleDays(x, c)) = 1
              /\ \E x \in Solutions(model, schedule_vars, classes) :
                    Cardinality(ArtDoubleDays(x, c)) = 0

\* C24 witness: an answered run where 10-A takes its two Art periods on two
\* different days and 9-A takes both on one day.
C24_ArtSplitAndDouble ==
    /\ Answered
    /\ Satisfies
    /\ scenario = "art"
    /\ Load("10-A", "Art") = 2
    /\ ArtDoubleDays(value, "10-A") = {}
    /\ Cardinality(ArtDoubleDays(value, "9-A")) = 1

\* ---------------------------------------------------------------------
\* test_minimal.py: the reduced model with the Art and PE teacher rules only.

\* The model test_with_art_pe_only posts: the weekly loads, the required
\* slots, and per slot at most one Art class of Shiwen.  The PE block collects
\* pe_classes and then posts sum(art_classes) <= 1 once more, with the
\* art_classes left by the last slot of the Art loop.
ReducedModel(cls, sv, ts) ==
    LET taught(t, k, s) ==
            {Key(c, k, s) : c \in {d \in DOMAIN cls : /\ k \in CourseNames(cls, d)
                                                      /\ CourseOf(cls, d, k).teacher = <<t>>
                                                      /\ s \notin excluded_slots(d)}} \cap sv
        last == CHOOSE s \in ts : \A u \in ts : u[1] < s[1] \/ (u[1] = s[1] /\ u[2] <= s[2])
        art_classes == taught("Shiwen", "Art", last)
    IN LoadConstraints(cls, sv, ts)
       \cup RequiredConstraints(sv)
       \cup {Le("C", taught("Shiwen", "Art", s), 1) :
                s \in {u \in ts : Cardinality(taught("Shiwen", "Art", u)) > 1}}
       \cup {Le("C", art_classes, 1) : s \in {u \in ts : Cardinality(art_classes) > 1}}

\* test_with_art_pe_only(): build the reduced model, solve it, and return
\* whether the status is OPTIMAL or FEASIBLE.
test_with_art_pe_only ==
    /\ pc = "init"
    /\ schedule_vars' = _create_variables(classes, time_slots)
    /\ model' = ReducedModel(classes, schedule_vars', time_slots)
    /\ \E answer \in EngineAnswers(model', schedule_vars', classes) :
          /\ status' = answer[1]
          /\ value' = answer[2]
    /\ success' = (status' \in Found)
    /\ pc' = "tested"
    /\ UNCHANGED <<scenario, excluded, required, classes, time_slots, set_order,
                   solution, verdict, errors, error_list, solution_is_none, saved>>

SpecArtPE == InitOn({"artpe"}) /\ [][test_with_art_pe_only]_vars

\* At most one PE class of Wen at every slot of the assignment x.
OnePEPerSlot(x) ==
    \A s \in get_time_slots : Cardinality({key \in x : key[2] = "PE" /\ SlotOf(key) = s}) <= 1

\* C25: the reduced model of test_with_art_pe_only is feasible with the PE
\* rule among its constraints: the weekly loads, the required slots, at most
\* one Art class of Shiwen per slot and at most one PE class of Wen per slot
\* admit at least one assignment.
C25_FeasibleWithPERule ==
    pc = "tested" =>
        \E x \in Solutions(model, schedule_vars, classes) : OnePEPerSlot(x)

\* C25 witness: the test returns True on an assignment that holds PE of 12-A
\* and of 12-B together at Tuesday period 7, and its model has no constraint
\* over the PE variables of a slot.
C25_BothPEAtTuesdaySeven ==
    /\ pc = "tested"
    /\ success
    /\ Key("12-A", "PE", <<1, 7>>) \in value
    /\ Key("12-B", "PE", <<1, 7>>) \in value
    /\ \A x \in Solutions(model, schedule_vars, classes) : ~ OnePEPerSlot(x)
    /\ ~ \E k \in model : k.kind = "le" /\ \E key \in k.a : key[2] = "PE"
    /\ \E k \in model : k.kind = "le" /\ Cardinality(k.a) = 2 /\ \A key \in k.a : key[2] = "Art"

\* ---------------------------------------------------------------------
\* PE of the 12th grade, which Wen's teacher-level joint session counts once.

SpecPE == InitOn({"pe"}) /\ [][Next]_vars

\* C26: in every assignment that satisfies the compiled hard constraints,
\* 12-A and 12-B take PE at exactly the same slots.
C26_TwelfthPETogether ==
    (Answered /\ Satisfies) =>
        \A s \in get_time_slots : Takes("12-A", "PE", s) <=> Takes("12-B", "PE", s)

\* C26 witness: an answered run whose assignment satisfies the model, with PE
\* of 12-A and of 12-B together at Tuesday period 7, the second PE period of
\* 12-A at Monday period 1 and that of 12-B at Friday period 1; no equality
\* or implication of the model joins variables of the two classes.
C26_SecondPEApart ==
    /\ Answered
    /\ Satisfies
    /\ scenario = "pe"
    /\ Takes("12-A", "PE", <<1, 7>>)
    /\ Takes("12-B", "PE", <<1, 7>>)
    /\ Load("12-A", "PE") = 2
    /\ Load("12-B", "PE") = 2
    /\ Takes("12-A", "PE", <<0, 1>>)
    /\ Takes("12-B", "PE", <<4, 1>>)
    /\ ~ \E k \in model : /\ k.kind \notin {"le", "days_le"}
                          /\ \E a \in Scope(k) : a[1] = "12-A"
                          /\ \E b \in Scope(k) : b[1] = "12-B"

\* ---------------------------------------------------------------------
\* The representative of a session in the teacher conflict family (C).

\* C27: the assignments the compiled hard constraints accept are the same
\* for every iteration order of the teachers' (class, course) sets: whichever
\* member of a session is met first and counted for it, the model built
\* accepts the same assignments.
C27_OrderIndependent ==
    pc = "built" =>
        \A order \in IterationOrders :
            Solutions(add_all_constraints(classes, schedule_vars, time_slots, order),
                      schedule_vars, classes)
                = Solutions(model, schedule_vars, classes)

\* C27 witness: a run that met 12-A before 12-B is answered with an
\* assignment that satisfies its model, where 12-B and 11-A both have PE with
\* Wen at Friday period 1; the model compiled with 12-B met first holds a
\* constraint this assignment breaks.
C27_AcceptedInOneOrderOnly ==
    /\ Answered
    /\ Satisfies
    /\ scenario = "pe"
    /\ set_order = ClassOrder
    /\ Takes("12-B", "PE", <<4, 1>>)
    /\ Takes("11-A", "PE", <<4, 1>>)
    /\ ~ Takes("12-A", "PE", <<4, 1>>)
    /\ \E k \in add_all_constraints(classes, schedule_vars, time_slots, Reverse(ClassOrder)) :
          /\ k.fam = "C"
          /\ ~ Holds(k, value)

\* ---------------------------------------------------------------------
\* Where the EAL periods fall (families E3, E4, the loads and the sessions).

\* C28: on a catalog that holds Psych&Geo of the three 10th grade classes, in
\* every assignment that satisfies the compiled hard constraints 10-EAL-A and
\* 10-EAL-B take EAL at exactly the slots where 10-A and 10-B take Psych&Geo,
\* and 10-EAL-C takes EAL at a slot exactly when 10-C takes Psych&Geo or 10-A
\* or 10-C takes Phys&Bio there.
C28_EALPlacedByOthers ==
    (Answered /\ Satisfies /\ \A q \in EALPairs : <<q[1], "Psych&Geo">> \in ClassCourses(classes)) =>
        \A s \in get_time_slots :
            /\ Takes("10-EAL-A", "EAL", s) <=> Takes("10-A", "Psych&Geo", s)
            /\ Takes("10-EAL-B", "EAL", s) <=> Takes("10-B", "Psych&Geo", s)
            /\ Takes("10-EAL-C", "EAL", s) <=>
                  \/ Takes("10-C", "Psych&Geo", s)
                  \/ Takes("10-A", "Phys&Bio", s)
                  \/ Takes("10-C", "Phys&Bio", s)

\* C28 witness: an answered run on the 10th grade catalog where 10-EAL-C has
\* its six EAL periods, three with Psych&Geo of 10-C and three with Phys&Bio,
\* and the model holds no constraint that implies Psych&Geo or Phys&Bio from
\* an EAL variable.
C28_SixEALAllPlaced ==
    /\ Answered
    /\ Satisfies
    /\ scenario = "tenth"
    /\ Load("10-EAL-C", "EAL") = 6
    /\ Load("10-EAL-A", "EAL") = 3
    /\ Cardinality({s \in get_time_slots :
                       Takes("10-EAL-C", "EAL", s) /\ Takes("10-C", "Psych&Geo", s)}) = 3
    /\ Cardinality({s \in get_time_slots :
                       Takes("10-EAL-C", "EAL", s) /\ Takes("10-C", "Phys&Bio", s)}) = 3
    /\ ~ \E k \in model : k.kind = "imp" /\ \E key \in k.a : key[2] = "EAL"

\* ---------------------------------------------------------------------
\* What the same-day adjacency family (W) bounds by itself.

\* C29: the constraints of family W alone bound every (class, course) to at
\* most 2 periods a day: of the variables of one (class, course, day), every
\* choice that breaks no W constraint holds at most two; and in every
\* assignment that satisfies the compiled hard constraints no EAL class has
\* three EAL periods on one day.
C29_AdjacencyBoundsDay ==
    /\ pc = "built" =>
          \A q \in ClassCourses(classes), d \in Days :
              \A z \in SUBSET SlotVars(schedule_vars, q[1], q[2], DaySlots(d)) :
                  (\A k \in model : (k.fam = "W" /\ k.a \cap z # {}) => Holds(k, z))
                      => Cardinality(z) <= 2
    /\ (Answered /\ Satisfies) =>
          \A c \in EALClasses \cap DOMAIN classes, d \in Days : DayLoad(c, "EAL", d) <= 2

\* C29 witness: an answered run where 10-EAL-C, which has no daily cap (F) in
\* the model, has four EAL variables on Friday, W constraints over them, and
\* takes EAL twice on each of three days.
C29_EALTwiceADay ==
    /\ Answered
    /\ Satisfies
    /\ scenario = "tenth"
    /\ ~ \E k \in model : k.fam = "F" /\ \E key \in k.a : key[1] = "10-EAL-C"
    /\ Cardinality(SlotVars(schedule_vars, "10-EAL-C", "EAL", DaySlots(4))) = 4
    /\ \E k \in model : k.fam = "W" /\ k.a = {Key("10-EAL-C", "EAL", <<4, 1>>),
                                              Key("10-EAL-C", "EAL", <<4, 3>>)}
    /\ \A d \in WindowDays : DayLoad("10-EAL-C", "EAL", d) = 2

\* ---------------------------------------------------------------------
\* The auxiliary variables of the soft terms (families G, Q, Y, X and Z).

\* The number of indicator groups of a term with a variable at 1: the sum an
\* excess variable is compared with.
Count(t, x) == Cardinality({g \in t.g : g \cap x # {}})

\* Whether the auxiliary variable of a soft term has a value in its domain
\* that satisfies the constraints defining it, the schedule variables being
\* as in x: the indicator of AddMinEquality, the indicator enforced both ways
\* (OnlyEnforceIf), or the excess variable of NewIntVar(0, hi).
Extends(t, x) ==
    CASE t.kind = "min" -> \E b \in BOOLEAN : b <=> (\A g \in t.g : g \subseteq x)
      [] t.kind = "atleast" ->
            \E b \in BOOLEAN : \A g \in t.g : /\ b => Sum(g, x) >= t.k
                                              /\ ~ b => Sum(g, x) < t.k
      [] t.kind = "excess" -> \E e \in 0..t.hi : e >= Count(t, x) - t.k

SpecSoft == InitOn({"ap", "seminar"}) /\ [][Next]_vars

\* C30: every assignment that satisfies the compiled hard constraints extends
\* to values of the auxiliary variables of every soft term (the consecutive
\* indicators, the daily-AP indicators and the bounded excess variables) that
\* satisfy their defining constraints: the soft terms remove no schedule.
C30_SoftTermsRemoveNothing ==
    (Answered /\ Satisfies) =>
        \A t \in add_soft_terms(classes, schedule_vars) : Extends(t, value)

\* C30 witness: an answered run where 11-A has six AP periods on Tuesday, so
\* that the excess variable of the day's Y term takes 2, the top of its
\* domain, and the run's soft terms hold a Z term and Q terms.
C30_ExcessAtTopOfDomain ==
    /\ Answered
    /\ Satisfies
    /\ scenario = "ap"
    /\ \E t \in add_soft_terms(classes, schedule_vars) :
          /\ t.fam = "Y"
          /\ t.hi = 2
          /\ Count(t, value) - t.k = 2
          /\ \A g \in t.g : \A key \in g : key[3] = 1
    /\ \E t \in add_soft_terms(classes, schedule_vars) : t.fam = "Z" /\ t.hi = 1
    /\ \E t \in add_soft_terms(classes, schedule_vars) : t.fam = "Q"
    /\ \E t \in add_soft_terms(classes, schedule_vars) : t.fam = "G"

\* An answered run where a teacher has period 1 on all five days: the excess
\* variable of the X term takes 2 of its domain 0..5.
C30_PeriodOneEveryDay ==
    /\ Answered
    /\ Satisfies
    /\ scenario = "seminar"
    /\ \E t \in add_soft_terms(classes, schedule_vars) :
          t.fam = "X" /\ t.hi = 5 /\ Count(t, value) - t.k = 2

====
